---- MODULE Spec2Model ----
(***************************************************************************)
(* State-machine model of liquid_energy.core:                              *)
(*   - event_system.py      EventEngine (threads, queue, listener list)    *)
(*   - hummingbot_client.py HummingbotClient (asyncio tasks, one socket)   *)
(* Each action is one atomic stretch of the code: for the engine a         *)
(* stretch between two points where another thread can observe a change,   *)
(* for the client a stretch between two awaits.                            *)
(***************************************************************************)
EXTENDS Integers, Sequences, FiniteSets, TLC

\* ------------------------------------------------------------ bounds
\* number of put() calls made on the engine in one behaviour
MaxEvents == 2
\* longest listener list register_listener is asked to build
MaxRegs == 2
\* number of requests one client sends in one behaviour
MaxRequests == 2
\* number of transports opened for one client in one behaviour
MaxTransports == 1
\* frames the peer has sent on a transport that the client has not read yet
MaxInbox == 1
\* longest listener list an engine has when unregister_listener is examined
MaxList == 3
\* number of order operations (create_order, cancel_order) called in one behaviour
MaxOrders == 1

\* ------------------------------------------------------------ data
\* EventType (enum), by member name
EventType ==
    {"MARKET_DATA", "ORDER_UPDATE", "TRADE_UPDATE", "STRATEGY_UPDATE",
     "ERROR", "INFO", "SYSTEM"}

\* the (kind, payload) pairs producers publish in the engine specification
PutEvents ==
    {<<"MARKET_DATA", "d1">>, <<"MARKET_DATA", "d2">>, <<"ORDER_UPDATE", "d1">>}

\* the listener objects; event_types is fixed at construction
ListenerNames == {"la", "lb"}
event_types(l) ==
    CASE l = "la" -> {"MARKET_DATA"}
      [] l = "lb" -> {"MARKET_DATA", "ORDER_UPDATE"}

\* the dispatch threads start() can create, and the threads calling start/stop
Threads == {"t1", "t2"}
Callers == {"c1"}

NoThread == "none"

\* references to mapping objects (identities); NoRef is None
Refs == {"@1", "@2", "@3"}
NoRef == "@0"
\* the values a producer stores under a key
Atoms == {"1", "2", "3"}
NoHeap == [objs |-> [r \in Refs |-> {}], payload |-> NoRef, data |-> NoRef]
NoEvent == [id |-> 0, type |-> "none", data |-> "none"]
NoRegs == [l \in ListenerNames |-> 0]

VARIABLES
    \* EventEngine fields
    listeners,      \* _listeners: sequence of listener names
    event_queue,    \* _event_queue: FIFO of events
    running,        \* _running
    thread,         \* _thread: the thread object start() created last
    pool,           \* the threads the interpreter can run at one time
    lock,           \* _lock: the thread that holds it, or NoThread
    \* dispatch threads (_process_events / _distribute_event frames)
    tpc,            \* position of each thread
    tev,            \* local `event`
    tsnap,          \* local `listeners` (the snapshot)
    tidx,           \* position of the for loop in the snapshot
    \* callers of start() / stop()
    cpc,
    \* observation (not program state)
    published,      \* events passed to put(), in call order, until fanned out
    taken,          \* per event id: how often the queue handed it out
    regs,           \* per listener: register calls minus effective unregisters
    unreg,          \* listeners whose last registration was removed
    tregs,          \* per thread: regs when its snapshot was taken
    tcalls,         \* per thread: handle_event invocations of this fan-out
    traised,        \* per thread: snapshot position of the first raise, or 0
    tlate           \* per thread: listeners invoked while holding no registration

VARIABLES
    \* HummingbotClient fields
    connection_status,      \* ConnectionStatus, by value
    ws,                     \* _ws: 0 for None, else the transport
    message_id,             \* _message_id
    pending_requests,       \* _pending_requests: request id -> future
    task,                   \* _event_processor_task: "none" or "task"
    \* the task running _process_events
    rpc,                    \* "none", "new", "recv", "except" or "done"
    rws,                    \* the transport whose recv() it awaits
    rcancel,                \* cancel() was called on it
    dropped,                \* frames it gave up on in an except clause
    \* the transports and the peer's side of them
    tstate,                 \* "unopened", "open" or "closed"
    inbox,                  \* frames sent by the peer, not yet received
    wire,                   \* requests written by the client
    \* the caller of connect()
    kpc,                    \* "idle", "open", "auth" or "cleanup"
    kid,                    \* id of its authenticate request
    kws,                    \* the transport whose close() it awaits
    \* the caller of disconnect()
    dpc,                    \* "idle", "join" or "close"
    dws,                    \* the transport whose close() it awaits
    \* the _send_request calls, by request id
    calls,
    last                    \* the call that ended last and how it ended

VARIABLES
    \* the Python objects of one payload: the mapping a producer builds, the
    \* mapping nested in it, and the data of the Event built from it
    heap

cConn == <<connection_status, ws, task>>
cReq == <<message_id, pending_requests, calls, last>>
cTask == <<rpc, rws, rcancel, dropped>>
cNet == <<tstate, inbox, wire>>
cConnect == <<kpc, kid, kws>>
cDisc == <<dpc, dws>>
cvars == <<cConn, cReq, cTask, cNet, cConnect, cDisc>>

eFields == <<listeners, event_queue, running, thread, pool, lock>>
eLoop == <<tpc, tev, tsnap, tidx>>
eObs == <<published, taken, regs, unreg>>
eObsT == <<tregs, tcalls, traised, tlate>>
evars == <<eFields, eLoop, cpc, eObs, eObsT>>
\* the engine but for its queue and the log of the events put
eRest == <<listeners, running, thread, pool, lock, eLoop, cpc, regs, unreg, eObsT>>

vars == <<evars, cvars, heap>>

\* ------------------------------------------------------------ helpers
Range(s) == {s[i] : i \in 1..Len(s)}

Count(x, s) == Cardinality({i \in 1..Len(s) : s[i] = x})

\* list.remove(x): drops the first occurrence
RECURSIVE ListRemove(_, _)
ListRemove(s, x) ==
    IF s = <<>> THEN <<>>
    ELSE IF Head(s) = x THEN Tail(s)
    ELSE <<Head(s)>> \o ListRemove(Tail(s), x)

\* Event.__init__: type, a copy of data; id stands for the object's identity
Event(n, event_type, data) == [id |-> n, type |-> event_type, data |-> data]

\* Event.__eq__
EventEq(a, b) == a.type = b.type /\ a.data = b.data

\* a version of can_handle_event_type that accepts every kind
can_handle_any(l, event_type) == TRUE

\* EventListener.can_handle_event_type
can_handle_event_type(l, event_type) == event_type \in event_types(l)

\* with self._lock (lines 150, 160, 171): the block is entered when no thread
\* holds the lock; it makes no call that waits, so entering it, its body and
\* leaving it are one step, after which the lock is free as before
WithLock == lock = NoThread

\* EventEngine.get_listeners: a copy of the list, taken under the lock
get_listeners == listeners

Alive(t) == t # NoThread /\ tpc[t] \notin {"unborn", "dead"}

\* the events whose fan-out has finished
InFlight == {tev[t].id : t \in Threads} \ {0}
Queued == {event_queue[i].id : i \in 1..Len(event_queue)}
Done == (1..Len(published)) \ (InFlight \cup Queued)

\* ------------------------------------------------------------ initial state
\* an engine with the threads p at the interpreter's disposal, after
\* EventEngine.__init__ and one register_listener for each element of ls
InitEngineFrom(p, ls) ==
    /\ listeners = ls
    /\ event_queue = <<>>
    /\ running = FALSE
    /\ thread = NoThread
    /\ pool = p
    /\ lock = NoThread
    /\ tpc = [t \in Threads |-> "unborn"]
    /\ tev = [t \in Threads |-> NoEvent]
    /\ tsnap = [t \in Threads |-> <<>>]
    /\ tidx = [t \in Threads |-> 0]
    /\ cpc = [c \in Callers |-> "idle"]
    /\ published = <<>>
    /\ taken = <<>>
    /\ regs = [l \in ListenerNames |-> Count(l, ls)]
    /\ unreg = {}
    /\ tregs = [t \in Threads |-> NoRegs]
    /\ tcalls = [t \in Threads |-> NoRegs]
    /\ traised = [t \in Threads |-> 0]
    /\ tlate = [t \in Threads |-> {}]
    /\ heap = NoHeap

\* EventEngine.__init__, with the threads p at the interpreter's disposal
InitEngineWith(p) == InitEngineFrom(p, <<>>)

\* start() is called again when the loop of the run before has ended
InitEngine == InitEngineWith(<<"t1">>)

\* ------------------------------------------------------------ EventEngine
\* a version of register_listener that keeps one registration for each
\* listener
register_listener_unique(l) ==
    /\ Len(listeners) < MaxRegs
    /\ WithLock
    /\ listeners' = IF l \in Range(listeners) THEN listeners
                    ELSE Append(listeners, l)
    /\ regs' = [regs EXCEPT ![l] = @ + 1]
    /\ unreg' = unreg \ {l}
    /\ UNCHANGED <<heap, cvars, event_queue, running, thread, pool, lock, eLoop, cpc,
                   published, taken, eObsT>>

\* register_listener, lines 150-151
register_listener(l) ==
    /\ Len(listeners) < MaxRegs
    /\ WithLock
    /\ listeners' = Append(listeners, l)
    /\ regs' = [regs EXCEPT ![l] = @ + 1]
    /\ unreg' = unreg \ {l}
    /\ UNCHANGED <<heap, cvars, event_queue, running, thread, pool, lock, eLoop, cpc,
                   published, taken, eObsT>>

\* a version of unregister_listener that leaves the list as it is
unregister_listener_keep(l) ==
    /\ regs' = [regs EXCEPT ![l] = IF @ > 0 THEN @ - 1 ELSE 0]
    /\ unreg' = IF regs[l] = 1 THEN unreg \cup {l} ELSE unreg
    /\ UNCHANGED <<heap, cvars, eFields, eLoop, cpc, published, taken, eObsT>>

\* unregister_listener, lines 160-162
unregister_listener(l) ==
    /\ WithLock
    /\ listeners' = IF l \in Range(listeners) THEN ListRemove(listeners, l)
                    ELSE listeners
    /\ regs' = [regs EXCEPT ![l] = IF @ > 0 THEN @ - 1 ELSE 0]
    /\ unreg' = IF regs[l] = 1 THEN unreg \cup {l} ELSE unreg
    /\ UNCHANGED <<heap, cvars, event_queue, running, thread, pool, lock, eLoop, cpc,
                   published, taken, eObsT>>

\* a version of put that queues the event on a running engine only
put_drop(event) ==
    /\ event_queue' = IF running THEN Append(event_queue, event) ELSE event_queue
    /\ published' = Append(published, event)
    /\ taken' = Append(taken, 0)

\* put, line 181
put(event) ==
    /\ event_queue' = Append(event_queue, event)
    /\ published' = Append(published, event)
    /\ taken' = Append(taken, 0)

\* a producer thread builds an event and puts it
Produce(event_type, data) ==
    /\ Len(published) < MaxEvents
    /\ put(Event(Len(published) + 1, event_type, data))
    /\ UNCHANGED <<heap, cvars, listeners, running, thread, pool, lock, eLoop, cpc, regs,
                   unreg, eObsT>>

\* a version of is_running that reports whether the thread is alive
is_running_alive == Alive(thread)

\* is_running, line 190
is_running == running

\* a version of start_check that does not test _running
start_check_always(c) ==
    /\ cpc[c] = "idle"
    /\ \E t \in Range(pool) : tpc[t] \in {"unborn", "dead"}
    /\ cpc' = [cpc EXCEPT ![c] = "start_set"]
    /\ UNCHANGED <<heap, cvars, eFields, eLoop, eObs, eObsT>>

\* start(), lines 196-197: the test of _running; on a running engine the call
\* goes straight to its return. A call on an engine that is not running is
\* made when the interpreter has a thread left to create.
start_check(c) ==
    /\ cpc[c] = "idle"
    /\ running \/ \E t \in Range(pool) : tpc[t] \in {"unborn", "dead"}
    /\ cpc' = [cpc EXCEPT ![c] = IF running THEN "start_return" ELSE "start_set"]
    /\ UNCHANGED <<heap, cvars, eFields, eLoop, eObs, eObsT>>

\* start(), line 197: return
start_return(c) ==
    /\ cpc[c] = "start_return"
    /\ cpc' = [cpc EXCEPT ![c] = "idle"]
    /\ UNCHANGED <<heap, cvars, eFields, eLoop, eObs, eObsT>>

\* start(), line 199: the flag is set; the thread is not created yet, and
\* until it is another thread reads is_running() true while _thread is
\* still what it was
start_set(c) ==
    /\ cpc[c] = "start_set"
    /\ running' = TRUE
    /\ cpc' = [cpc EXCEPT ![c] = "start_thread"]
    /\ UNCHANGED <<heap, cvars, listeners, event_queue, thread, pool, lock, eLoop,
                   eObs, eObsT>>

\* start(), lines 200-202: create and start the thread; Thread.start()
\* returns when the thread has begun to run
start_launch(c) ==
    /\ cpc[c] = "start_thread"
    /\ \E i \in 1..Len(pool) : LET t == pool[i] IN
        /\ tpc[t] \in {"unborn", "dead"}
        /\ \A j \in 1..(i - 1) : tpc[pool[j]] \notin {"unborn", "dead"}
        /\ thread' = t
        /\ tpc' = [tpc EXCEPT ![t] = "while"]
    /\ cpc' = [cpc EXCEPT ![c] = "idle"]
    /\ UNCHANGED <<heap, cvars, listeners, event_queue, running, pool, lock, tev, tsnap,
                   tidx, eObs, eObsT>>

\* stop(), lines 208-209: clear the flag, then join the thread if it is alive
stop_signal(c) ==
    /\ cpc[c] = "idle"
    /\ running' = FALSE
    /\ cpc' = [cpc EXCEPT
                 ![c] = IF Alive(thread) THEN "stop_join" ELSE "stop_return"]
    /\ UNCHANGED <<heap, cvars, listeners, event_queue, thread, pool, lock, eLoop, eObs,
                   eObsT>>

\* a version of stop_join that waits for the thread without a timeout
stop_join_forever(c) ==
    /\ cpc[c] = "stop_join"
    /\ ~Alive(thread)
    /\ cpc' = [cpc EXCEPT ![c] = "idle"]
    /\ UNCHANGED <<heap, cvars, eFields, eLoop, eObs, eObsT>>

\* stop(), line 210: join(timeout=1.0) returns when the thread has ended or
\* when the second has passed, whichever comes first
stop_join(c) ==
    /\ cpc[c] = "stop_join"
    /\ cpc' = [cpc EXCEPT ![c] = "idle"]
    /\ UNCHANGED <<heap, cvars, eFields, eLoop, eObs, eObsT>>

\* stop() returns without a join: the thread was never created or has ended
stop_return(c) ==
    /\ cpc[c] = "stop_return"
    /\ cpc' = [cpc EXCEPT ![c] = "idle"]
    /\ UNCHANGED <<heap, cvars, eFields, eLoop, eObs, eObsT>>

\* _process_events, line 216: while self._running
process_events_while(t) ==
    /\ tpc[t] = "while"
    /\ tpc' = [tpc EXCEPT ![t] = IF running THEN "get" ELSE "dead"]
    /\ UNCHANGED <<heap, cvars, eFields, tev, tsnap, tidx, cpc, eObs, eObsT>>

\* a version of process_events_get that reads the head and leaves it queued
process_events_get_peek(t) ==
    /\ tpc[t] = "get"
    /\ IF event_queue # <<>>
       THEN /\ tev' = [tev EXCEPT ![t] = Head(event_queue)]
            /\ taken' = [taken EXCEPT ![Head(event_queue).id] = @ + 1]
            /\ tpc' = [tpc EXCEPT ![t] = "distribute"]
       ELSE /\ tpc' = [tpc EXCEPT ![t] = "while"]
            /\ UNCHANGED <<tev, taken>>
    /\ UNCHANGED <<heap, cvars, eFields, tsnap, tidx, cpc, published, regs, unreg,
                   eObsT>>

\* _process_events, lines 220-223: queue.get(timeout=0.1); queue.Empty -> continue
process_events_get(t) ==
    /\ tpc[t] = "get"
    /\ IF event_queue # <<>>
       THEN /\ tev' = [tev EXCEPT ![t] = Head(event_queue)]
            /\ event_queue' = Tail(event_queue)
            /\ taken' = [taken EXCEPT ![Head(event_queue).id] = @ + 1]
            /\ tpc' = [tpc EXCEPT ![t] = "distribute"]
       ELSE /\ tpc' = [tpc EXCEPT ![t] = "while"]
            /\ UNCHANGED <<tev, event_queue, taken>>
    /\ UNCHANGED <<heap, cvars, listeners, running, thread, pool, lock, tsnap, tidx, cpc,
                   published, regs, unreg, eObsT>>

\* a version of distribute_event_snapshot that keeps the lock for the fan-out
distribute_event_snapshot_locked(t) ==
    /\ tpc[t] = "distribute"
    /\ WithLock
    /\ lock' = t
    /\ tsnap' = [tsnap EXCEPT ![t] = get_listeners]
    /\ tidx' = [tidx EXCEPT ![t] = 1]
    /\ tregs' = [tregs EXCEPT ![t] = regs]
    /\ tpc' = [tpc EXCEPT ![t] = "fanout"]
    /\ UNCHANGED <<heap, cvars, listeners, event_queue, running, thread, pool,
                   tev, cpc, eObs, tcalls, traised, tlate>>

\* _distribute_event, line 243: listeners = self.get_listeners()
distribute_event_snapshot(t) ==
    /\ tpc[t] = "distribute"
    /\ WithLock
    /\ tsnap' = [tsnap EXCEPT ![t] = get_listeners]
    /\ tidx' = [tidx EXCEPT ![t] = 1]
    /\ tregs' = [tregs EXCEPT ![t] = regs]
    /\ tpc' = [tpc EXCEPT ![t] = "fanout"]
    /\ UNCHANGED <<heap, cvars, eFields, tev, cpc, eObs, tcalls, traised, tlate>>

\* listener.handle_event(event) is entered: what an observer records
Invoke(t, l, raised) ==
    /\ tcalls' = [tcalls EXCEPT ![t][l] = @ + 1]
    /\ traised' = [traised EXCEPT ![t] = IF raised /\ @ = 0 THEN tidx[t] ELSE @]
    /\ tlate' = [tlate EXCEPT ![t] = IF regs[l] = 0 THEN @ \cup {l} ELSE @]

\* a version of distribute_event_step in which a raising handler ends the loop
distribute_event_step_nocatch(t) ==
    /\ tpc[t] = "fanout"
    /\ tidx[t] <= Len(tsnap[t])
    /\ LET l == tsnap[t][tidx[t]] IN
       IF can_handle_event_type(l, tev[t].type)
       THEN \E raised \in BOOLEAN :
              /\ Invoke(t, l, raised)
              /\ tidx' = [tidx EXCEPT
                            ![t] = IF raised THEN Len(tsnap[t]) + 1 ELSE @ + 1]
       ELSE /\ tidx' = [tidx EXCEPT ![t] = @ + 1]
            /\ UNCHANGED <<tcalls, traised, tlate>>
    /\ UNCHANGED <<heap, cvars, eFields, tpc, tev, tsnap, cpc, eObs, tregs>>

\* _distribute_event, lines 245-251: one turn of the for loop; the handler
\* returns or raises an Exception, which is caught and printed
distribute_event_step(t) ==
    /\ tpc[t] = "fanout"
    /\ tidx[t] <= Len(tsnap[t])
    /\ LET l == tsnap[t][tidx[t]] IN
       IF can_handle_event_type(l, tev[t].type)
       THEN \E raised \in BOOLEAN :
              /\ Invoke(t, l, raised)
              /\ tidx' = [tidx EXCEPT ![t] = @ + 1]
       ELSE /\ tidx' = [tidx EXCEPT ![t] = @ + 1]
            /\ UNCHANGED <<tcalls, traised, tlate>>
    /\ UNCHANGED <<heap, cvars, eFields, tpc, tev, tsnap, cpc, eObs, tregs>>

\* _distribute_event returns; _process_events, line 229: task_done()
distribute_event_return(t) ==
    /\ tpc[t] = "fanout"
    /\ tidx[t] > Len(tsnap[t])
    /\ tpc' = [tpc EXCEPT ![t] = "while"]
    /\ tev' = [tev EXCEPT ![t] = NoEvent]
    /\ tsnap' = [tsnap EXCEPT ![t] = <<>>]
    /\ tidx' = [tidx EXCEPT ![t] = 0]
    /\ tregs' = [tregs EXCEPT ![t] = NoRegs]
    /\ tcalls' = [tcalls EXCEPT ![t] = NoRegs]
    /\ traised' = [traised EXCEPT ![t] = 0]
    /\ tlate' = [tlate EXCEPT ![t] = {}]
    /\ published' = [published EXCEPT ![tev[t].id] = NoEvent]
    /\ UNCHANGED <<heap, cvars, eFields, cpc, taken, regs, unreg>>

\* _distribute_event, line 246, and _process_events, lines 231-233: the
\* can_handle_event_type of the listener raises an Exception (a listener class
\* may override it); nothing in _distribute_event catches it, so the for loop is
\* left, line 229 is skipped, and the except clause of the dispatch loop
\* prints the error and goes back to the test of _running
distribute_event_check_raises(t) ==
    /\ tpc[t] = "fanout"
    /\ tidx[t] <= Len(tsnap[t])
    /\ tpc' = [tpc EXCEPT ![t] = "while"]
    /\ tev' = [tev EXCEPT ![t] = NoEvent]
    /\ tsnap' = [tsnap EXCEPT ![t] = <<>>]
    /\ tidx' = [tidx EXCEPT ![t] = 0]
    /\ tregs' = [tregs EXCEPT ![t] = NoRegs]
    /\ tcalls' = [tcalls EXCEPT ![t] = NoRegs]
    /\ traised' = [traised EXCEPT ![t] = 0]
    /\ tlate' = [tlate EXCEPT ![t] = {}]
    /\ published' = [published EXCEPT ![tev[t].id] = NoEvent]
    /\ UNCHANGED <<heap, cvars, eFields, cpc, taken, regs, unreg>>

\* _distribute_event, line 248: the handler raises an exception that is no
\* Exception (SystemExit from sys.exit(), KeyboardInterrupt, GeneratorExit).
\* Neither the except clause of line 249 nor that of line 231 catches it:
\* the for loop and the while loop are left, task_done() is not called and
\* the thread ends, with _running and _thread as they were
distribute_event_step_exit(t) ==
    /\ tpc[t] = "fanout"
    /\ tidx[t] <= Len(tsnap[t])
    /\ can_handle_event_type(tsnap[t][tidx[t]], tev[t].type)
    /\ tpc' = [tpc EXCEPT ![t] = "dead"]
    /\ tev' = [tev EXCEPT ![t] = NoEvent]
    /\ tsnap' = [tsnap EXCEPT ![t] = <<>>]
    /\ tidx' = [tidx EXCEPT ![t] = 0]
    /\ tregs' = [tregs EXCEPT ![t] = NoRegs]
    /\ tcalls' = [tcalls EXCEPT ![t] = NoRegs]
    /\ traised' = [traised EXCEPT ![t] = 0]
    /\ tlate' = [tlate EXCEPT ![t] = {}]
    /\ published' = [published EXCEPT ![tev[t].id] = NoEvent]
    /\ UNCHANGED <<heap, cvars, eFields, cpc, taken, regs, unreg>>

\* _distribute_event, line 246: the can_handle_event_type of the listener
\* raises an exception that is no Exception (SystemExit, KeyboardInterrupt,
\* GeneratorExit), whatever types the listener accepts. The call is outside
\* the try block of line 247, and the except clause of line 231 does not catch
\* it either: the thread ends as in distribute_event_step_exit
distribute_event_check_exit(t) ==
    /\ tpc[t] = "fanout"
    /\ tidx[t] <= Len(tsnap[t])
    /\ tpc' = [tpc EXCEPT ![t] = "dead"]
    /\ tev' = [tev EXCEPT ![t] = NoEvent]
    /\ tsnap' = [tsnap EXCEPT ![t] = <<>>]
    /\ tidx' = [tidx EXCEPT ![t] = 0]
    /\ tregs' = [tregs EXCEPT ![t] = NoRegs]
    /\ tcalls' = [tcalls EXCEPT ![t] = NoRegs]
    /\ traised' = [traised EXCEPT ![t] = 0]
    /\ tlate' = [tlate EXCEPT ![t] = {}]
    /\ published' = [published EXCEPT ![tev[t].id] = NoEvent]
    /\ UNCHANGED <<heap, cvars, eFields, cpc, taken, regs, unreg>>

\* every step of the dispatch loop run by thread t
process_events(t) ==
    \/ process_events_while(t)
    \/ process_events_get(t)
    \/ distribute_event_snapshot(t)
    \/ distribute_event_step(t)
    \/ distribute_event_return(t)


\* ------------------------------------------------------------ HummingbotClient
Transports == 1..MaxTransports
None == 0

\* a key a JSON object or an argument list does not have
NoKey == "<absent>"

\* an inbound JSON object: id is 0 and type, status, message are NoKey when the
\* key is absent; data is <<>> when absent and <<d>> when it is the object d.
\* Objects are sets of <<key, value>> pairs. shape is "object" for a JSON
\* object whose data, if any, is an object.
Frame(id, type, status, message, data) ==
    [id |-> id, type |-> type, status |-> status, message |-> message,
     data |-> data, shape |-> "object"]
NoFrame == Frame(0, NoKey, "none", NoKey, <<>>)
NoArgs == [exchange |-> NoKey, market |-> NoKey, side |-> NoKey,
           order_type |-> NoKey, price |-> NoKey, order_id |-> NoKey]
NoCall == [op |-> "none", pc |-> "none", ws |-> None, answered |-> FALSE,
           cancel |-> FALSE, args |-> NoArgs]
NoLast == [id |-> 0, outcome |-> "none", got |-> NoFrame, error |-> "none"]

\* dict.get(key, {}) for the data of a frame (lines 321, 411)
GetData(frame) == IF frame.data = <<>> THEN {} ELSE frame.data[1]

\* the future of a request: as created (line 248), after set_result (line
\* 294), after wait_for has cancelled it (line 256)
Future == [state |-> "pending", result |-> NoFrame]
set_result(frame) == [state |-> "done", result |-> frame]
Cancelled == [state |-> "cancelled", result |-> NoFrame]

\* the status values a response frame carries
Statuses == {"success", "error"}

\* HummingbotClient.__init__, with the transports ts websockets.connect can
\* return in the behaviour
InitClientWith(ts) ==
    /\ connection_status = "disconnected"
    /\ ws = None
    /\ message_id = 0
    /\ pending_requests = <<>>
    /\ task = "none"
    /\ rpc = "none"
    /\ rws = None
    /\ rcancel = FALSE
    /\ dropped = 0
    /\ tstate = [w \in ts |-> "unopened"]
    /\ inbox = [w \in ts |-> <<>>]
    /\ wire = [w \in ts |-> {}]
    /\ kpc = "idle"
    /\ kid = 0
    /\ kws = None
    /\ dpc = "idle"
    /\ dws = None
    /\ calls = <<>>
    /\ last = NoLast

InitClient == InitClientWith(Transports)

Init == InitEngine /\ InitClient

\* the client can open one transport more, to connect again after a failed
\* connect() or a disconnect()
InitReconnect == InitEngine /\ InitClientWith(1..(MaxTransports + 1))

\* start() is called again whether or not the loop of the run before has ended
InitRestart == InitEngineWith(<<"t1", "t2">>) /\ InitClient

NextEngine ==
    \/ \E l \in ListenerNames : register_listener(l)
    \/ \E l \in ListenerNames : unregister_listener(l)
    \/ \E e \in PutEvents : Produce(e[1], e[2])
    \/ \E c \in Callers : start_check(c)
    \/ \E c \in Callers : start_return(c)
    \/ \E c \in Callers : start_set(c)
    \/ \E c \in Callers : start_launch(c)
    \/ \E c \in Callers : stop_signal(c)
    \/ \E c \in Callers : stop_join(c)
    \/ \E c \in Callers : stop_return(c)
    \/ \E t \in Threads : process_events_while(t)
    \/ \E t \in Threads : process_events_get(t)
    \/ \E t \in Threads : distribute_event_snapshot(t)
    \/ \E t \in Threads : distribute_event_step(t)
    \/ \E t \in Threads : distribute_event_return(t)

SpecEngine == Init /\ [][NextEngine]_vars

\* the engine with listeners whose can_handle_event_type may raise
NextFaulty ==
    \/ \E l \in ListenerNames : register_listener(l)
    \/ \E e \in PutEvents : Produce(e[1], e[2])
    \/ \E c \in Callers : start_check(c)
    \/ \E c \in Callers : start_return(c)
    \/ \E c \in Callers : start_set(c)
    \/ \E c \in Callers : start_launch(c)
    \/ \E t \in Threads : process_events_while(t)
    \/ \E t \in Threads : process_events_get(t)
    \/ \E t \in Threads : distribute_event_snapshot(t)
    \/ \E t \in Threads : distribute_event_step(t)
    \/ \E t \in Threads : distribute_event_check_raises(t)
    \/ \E t \in Threads : distribute_event_step_exit(t)
    \/ \E t \in Threads : distribute_event_check_exit(t)
    \/ \E t \in Threads : distribute_event_return(t)

SpecFaulty == Init /\ [][NextFaulty]_vars

\* the listener lists register_listener can have built
ListenerLists == UNION {[1..n -> ListenerNames] : n \in 0..MaxList}

\* an engine on which listeners have been registered, in any order and any
\* number of times
InitRegistry ==
    /\ \E ls \in ListenerLists : InitEngineFrom(<<"t1">>, ls)
    /\ InitClient

\* the engine is started and never stopped
NextRegistry ==
    \/ \E l \in ListenerNames : register_listener(l)
    \/ \E l \in ListenerNames : unregister_listener(l)
    \/ \E e \in PutEvents : Produce(e[1], e[2])
    \/ \E c \in Callers : start_check(c)
    \/ \E c \in Callers : start_return(c)
    \/ \E c \in Callers : start_set(c)
    \/ \E c \in Callers : start_launch(c)
    \/ \E t \in Threads : process_events_while(t)
    \/ \E t \in Threads : process_events_get(t)
    \/ \E t \in Threads : distribute_event_snapshot(t)
    \/ \E t \in Threads : distribute_event_step(t)
    \/ \E t \in Threads : distribute_event_return(t)

SpecRegistry == InitRegistry /\ [][NextRegistry]_vars

\* the interpreter schedules every started thread, and a caller inside start()
\* goes on to launch the thread
FairEngine ==
    /\ \A t \in Threads : WF_vars(process_events(t))
    /\ \A c \in Callers : WF_vars(start_set(c))
    /\ \A c \in Callers : WF_vars(start_launch(c))

FairSpecEngine == SpecEngine /\ FairEngine

\* the engine with a caller that restarts it at any time
FairRestart ==
    /\ \A t \in Threads : WF_vars(process_events(t))
    /\ \A c \in Callers : WF_vars(start_set(c))
    /\ \A c \in Callers : WF_vars(start_launch(c))

NextRestart ==
    \/ register_listener("lb")
    \/ Produce("MARKET_DATA", "d1")
    \/ \E c \in Callers : start_check(c)
    \/ \E c \in Callers : start_return(c)
    \/ \E c \in Callers : start_set(c)
    \/ \E c \in Callers : start_launch(c)
    \/ \E c \in Callers : stop_signal(c)
    \/ \E c \in Callers : stop_join(c)
    \/ \E c \in Callers : stop_return(c)
    \/ \E t \in Threads : process_events_while(t)
    \/ \E t \in Threads : process_events_get(t)
    \/ \E t \in Threads : distribute_event_snapshot(t)
    \/ \E t \in Threads : distribute_event_step(t)
    \/ \E t \in Threads : distribute_event_return(t)

SpecRestart == InitRestart /\ [][NextRestart]_vars

FairSpecRestart == SpecRestart /\ FairRestart

\* the caller of stop() is scheduled and the clock of join(timeout=1.0) runs;
\* nothing is assumed of the dispatch threads: a handler may never return
FairStop ==
    \A c \in Callers : WF_vars(stop_join(c)) /\ WF_vars(stop_return(c))

FairSpecStop == SpecRestart /\ FairStop

\* the transport websockets.connect returns next
NewTransport == Cardinality({w \in DOMAIN tstate : tstate[w] # "unopened"}) + 1

\* dict without key i
Without(d, i) == [j \in DOMAIN d \ {i} |-> d[j]]

\* dict with d[i] = v
With(d, i, v) == [j \in DOMAIN d \cup {i} |-> IF j = i THEN v ELSE d[j]]

InProgress(i) == i \in 1..Len(calls) /\ calls[i].pc \in {"send", "wait"}

\* a version of Registered that numbers the requests of each connection from 1
Registered_perconn(op, w) ==
    LET n == Cardinality({i \in 1..Len(calls) : calls[i].ws = w}) + 1
    IN  /\ message_id' = n
        /\ pending_requests' = With(pending_requests, n, Future)
        /\ calls' = Append(calls, [NoCall EXCEPT !.op = op, !.pc = "send",
                                                 !.ws = w])
        /\ UNCHANGED last

\* _send_request, lines 236-253, up to the await of send(): the new value of
\* message_id, pending_requests and calls for a request of kind op on transport w
Registered(op, w) ==
    /\ message_id' = message_id + 1
    /\ pending_requests' = With(pending_requests, message_id + 1, Future)
    /\ calls' = Append(calls, [NoCall EXCEPT !.op = op, !.pc = "send", !.ws = w])
    /\ UNCHANGED last

\* the same for an order operation, whose coroutine keeps its arguments
RegisteredOrder(op, w, args) ==
    /\ message_id' = message_id + 1
    /\ pending_requests' = With(pending_requests, message_id + 1, Future)
    /\ calls' = Append(calls, [NoCall EXCEPT !.op = op, !.pc = "send",
                                             !.ws = w, !.args = args])
    /\ UNCHANGED last

\* response.get("message", "Unknown error"), lines 408 and 470
GetMessage(frame) ==
    IF frame.message = NoKey THEN "Unknown error" ELSE frame.message

OrderOps == {"create_order", "cancel_order"}

\* the message of the HummingbotClientException an order operation raises
\* when its _send_request call ends with `outcome` ("none" when it raises
\* none): lines 230-231, 263-268, 407-409 and 469-471
OrderError(op, outcome, got) ==
    CASE op \notin OrderOps -> "none"
      [] outcome = "not_connected" -> "Not connected to Hummingbot"
      [] outcome = "timeout" -> "Request timed out"
      [] outcome = "failed" -> "Request failed"
      [] outcome = "response" /\ got.status # "success" -> GetMessage(got)
      [] OTHER -> "none"

\* the record of a call of _send_request that has ended
Finished == [NoCall EXCEPT !.pc = "done"]

\* a version of Returned that leaves the entry of the request in the table
Returned_keep(i, outcome, got) ==
    /\ calls' = [calls EXCEPT ![i] = Finished]
    /\ last' = [id |-> i, outcome |-> outcome, got |-> got,
                error |-> OrderError(calls[i].op, outcome, got)]
    /\ pending_requests' = pending_requests
    /\ UNCHANGED message_id

\* a version of Returned that empties the table
Returned_clear(i, outcome, got) ==
    /\ calls' = [calls EXCEPT ![i] = Finished]
    /\ last' = [id |-> i, outcome |-> outcome, got |-> got,
                error |-> OrderError(calls[i].op, outcome, got)]
    /\ pending_requests' = <<>>
    /\ UNCHANGED message_id

\* _send_request, lines 261-272: the call of request i ends with `outcome`
\* (returning `got` when it is "response"); the finally clause drops its entry
Returned(i, outcome, got) ==
    /\ calls' = [calls EXCEPT ![i] = Finished]
    /\ last' = [id |-> i, outcome |-> outcome, got |-> got,
                error |-> OrderError(calls[i].op, outcome, got)]
    /\ pending_requests' = IF i \in DOMAIN pending_requests
                           THEN Without(pending_requests, i)
                           ELSE pending_requests
    /\ UNCHANGED message_id

\* how a call that can go on ends: "failed" when send() raised, "timeout" when
\* wait_for gave up, "cancelled" when wait_for has cancelled the future for
\* the cancellation of the awaiting task, "response" when the future holds a
\* frame, "none" when the call is still suspended
Ending(i) ==
    CASE calls[i].pc = "send" /\ tstate[calls[i].ws] = "closed" -> "failed"
      [] calls[i].pc = "wait" /\ pending_requests[i].state = "cancelled"
            -> IF calls[i].cancel THEN "cancelled" ELSE "timeout"
      [] calls[i].pc = "wait" /\ pending_requests[i].state = "done"
            -> "response"
      [] OTHER -> "none"

Result(i) ==
    IF Ending(i) = "response" THEN pending_requests[i].result ELSE NoFrame

\* the operations that only send one request
Ops == {"get_balances"}

\* the operations of lines 506-780, each of which builds a request, awaits
\* _send_request, raises when the status is not success and returns
ReadOps ==
    {"get_order_status", "get_order_book", "get_ticker",
     "subscribe_to_order_book", "subscribe_to_trades", "get_balances",
     "get_open_orders", "get_order_history"}

\* what a call of _send_request that raised at line 237 leaves to see
NotConnected == [NoLast EXCEPT !.outcome = "not_connected"]

\* a version of send_request_refused that takes a request id before it looks
\* at the transport
send_request_refused_counted(op) ==
    /\ ws = None
    /\ message_id < MaxRequests
    /\ last' = NotConnected
    /\ message_id' = message_id + 1
    /\ UNCHANGED <<heap, evars, cConn, pending_requests, calls, cTask, cNet,
                   cConnect, cDisc>>

\* a domain operation calls _send_request while the client holds no
\* transport: the call raises at line 237
send_request_refused(op) ==
    /\ ws = None
    /\ last' = NotConnected
    /\ UNCHANGED <<heap, evars, cConn, message_id, pending_requests, calls,
                   cTask, cNet, cConnect, cDisc>>

\* a version of send_request that writes the request and leaves the
\* registration of its future for later
send_request_unregistered(op) ==
    /\ ws # None
    /\ message_id < MaxRequests
    /\ tstate[ws] = "open"
    /\ message_id' = message_id + 1
    /\ calls' = Append(calls, [NoCall EXCEPT !.op = op, !.pc = "send", !.ws = ws])
    /\ wire' = [wire EXCEPT ![ws] = @ \cup {message_id + 1}]
    /\ UNCHANGED <<heap, evars, cConn, pending_requests, last, cTask, tstate,
                   inbox, cConnect, cDisc>>

\* a domain operation calls _send_request while the client holds a transport
\* (lines 236-253)
send_request(op) ==
    /\ ws # None
    /\ message_id < MaxRequests
    /\ Registered(op, ws)
    /\ UNCHANGED <<heap, evars, cConn, cTask, cNet, cConnect, cDisc>>

\* _send_request, line 253: send() has written the request
send_request_sent(i) ==
    /\ InProgress(i) /\ calls[i].pc = "send"
    /\ tstate[calls[i].ws] = "open"
    /\ wire' = [wire EXCEPT ![calls[i].ws] = @ \cup {i}]
    /\ calls' = [calls EXCEPT ![i].pc = "wait"]
    /\ UNCHANGED <<heap, evars, cConn, message_id, pending_requests, last, cTask,
                   tstate, inbox, cConnect, cDisc>>

\* _send_request, lines 256-259: request_timeout has passed and wait_for
\* cancels the future
send_request_timeout(i) ==
    /\ InProgress(i) /\ calls[i].pc = "wait"
    /\ pending_requests[i].state = "pending"
    /\ pending_requests' = [pending_requests EXCEPT ![i] = Cancelled]
    /\ UNCHANGED <<heap, evars, cConn, message_id, calls, last, cTask, cNet, cConnect,
                   cDisc>>

\* a version of send_request_return that reports a failure on the event
\* engine as the order operations do
send_request_return_publish(i) ==
    /\ InProgress(i) /\ calls[i].op \in ReadOps
    /\ Ending(i) # "none"
    /\ Returned(i, Ending(i), Result(i))
    /\ IF Ending(i) = "response" /\ Result(i).status = "success"
       THEN UNCHANGED <<event_queue, published, taken>>
       ELSE /\ Len(published) < MaxEvents + MaxRequests
            /\ put(Event(Len(published) + 1, "ERROR", {}))
    /\ UNCHANGED <<heap, eRest, cConn, cTask, cNet, cConnect, cDisc>>

\* _send_request, lines 261-272, and the lines after the await of it in the
\* operations of lines 506-780: the call of a domain operation ends
send_request_return(i) ==
    /\ InProgress(i) /\ calls[i].op \in ReadOps
    /\ Ending(i) # "none"
    /\ Returned(i, Ending(i), Result(i))
    /\ UNCHANGED <<heap, evars, cConn, cTask, cNet, cConnect, cDisc>>

\* a version of connect_call without the test of line 158
connect_call_again ==
    /\ kpc = "idle"
    /\ \E w \in DOMAIN tstate : tstate[w] = "unopened"
    /\ connection_status' = "connecting"
    /\ kpc' = "open"
    /\ UNCHANGED <<heap, evars, ws, task, cReq, cTask, cNet, kid, kws, cDisc>>

\* connect(), lines 158-167, up to the await of websockets.connect
connect_call ==
    /\ kpc = "idle"
    /\ IF connection_status = "connected"
       THEN UNCHANGED <<connection_status, kpc>>
       ELSE /\ \E w \in DOMAIN tstate : tstate[w] = "unopened"
            /\ connection_status' = "connecting"
            /\ kpc' = "open"
    /\ UNCHANGED <<heap, evars, ws, task, cReq, cTask, cNet, kid, kws, cDisc>>

\* _cleanup, line 218: close() on transport w ends the connection; what the
\* peer had sent and not been read is gone with it
close(w) ==
    /\ tstate' = [tstate EXCEPT ![w] = "closed"]
    /\ inbox' = [inbox EXCEPT ![w] = <<>>]
    /\ wire' = [wire EXCEPT ![w] = {}]

\* _cleanup, lines 216-218, entered from connect(): the next position of the
\* caller of connect
ConnectCleanup(w) ==
    /\ connection_status' = "error"
    /\ IF w # None
       THEN kpc' = "cleanup" /\ kws' = w
       ELSE kpc' = "idle" /\ kws' = None

\* connect(), lines 167-173 and 187-189: websockets.connect returns a
\* transport and the authenticate request is registered, or it raises
connect_opened(ok) ==
    /\ kpc = "open"
    /\ IF ok
       THEN /\ message_id < MaxRequests
            /\ tstate' = [tstate EXCEPT ![NewTransport] = "open"]
            /\ ws' = NewTransport
            /\ Registered("authenticate", NewTransport)
            /\ kid' = message_id + 1
            /\ kpc' = "auth"
            /\ UNCHANGED <<connection_status, kws, dws>>
       ELSE /\ ConnectCleanup(ws)
            /\ dws' = dws
            /\ UNCHANGED <<ws, tstate, cReq, kid>>
    /\ UNCHANGED <<heap, evars, task, cTask, inbox, wire, dpc>>

\* connect(), lines 170-192: the authenticate request ends and connect goes on
\* to line 182 or to the except clause
connect_auth_done ==
    /\ kpc = "auth"
    /\ Ending(kid) # "none"
    /\ Returned(kid, Ending(kid), Result(kid))
    /\ IF Ending(kid) = "response" /\ Result(kid).status = "success"
       THEN /\ connection_status' = "connected"
            /\ task' = "task"
            /\ rpc' = "new"
            /\ rcancel' = FALSE
            /\ kpc' = "idle"
            /\ UNCHANGED kws
       ELSE /\ ConnectCleanup(ws)
            /\ UNCHANGED <<task, rpc, rcancel>>
    /\ kid' = 0
    /\ UNCHANGED <<heap, dropped, evars, ws, rws, cNet, cDisc>>

\* _cleanup, lines 218-221, and connect(), lines 190-192: close() has ended
\* (or raised), _ws is dropped and connect raises
connect_cleanup_done ==
    /\ kpc = "cleanup"
    /\ close(kws)
    /\ ws' = None
    /\ kpc' = "idle"
    /\ kws' = None
    /\ UNCHANGED <<heap, evars, connection_status, task, cReq, cTask, kid, cDisc>>

\* the client the repository's tests build (status CONNECTED, _ws set) together
\* with the receive-loop task of lines 182-183: the state connect() is written
\* to reach, taken here from a client at rest
connected_client ==
    /\ connection_status = "disconnected" /\ ws = None /\ task = "none"
    /\ kpc = "idle" /\ dpc = "idle"
    /\ \E w \in DOMAIN tstate : tstate[w] = "unopened"
    /\ tstate' = [tstate EXCEPT ![NewTransport] = "open"]
    /\ ws' = NewTransport
    /\ connection_status' = "connected"
    /\ task' = "task"
    /\ rpc' = "new"
    /\ rcancel' = FALSE
    /\ UNCHANGED <<heap, dropped, evars, cReq, rws, inbox, wire, cConnect, cDisc>>

\* _process_events, lines 279-282: the top of the loop, where the coroutine
\* leaves when _ws is unset and otherwise awaits recv()
LoopTop ==
    IF ws = None
    THEN rpc' = "done" /\ rws' = None
    ELSE rpc' = "recv" /\ rws' = ws

\* the task starts running _process_events
process_events_start ==
    /\ rpc = "new" /\ ~rcancel
    /\ LoopTop
    /\ UNCHANGED <<heap, dropped, evars, cConn, cReq, rcancel, cNet, cConnect, cDisc>>

\* a version of Resolve that resolves the oldest request still waiting
Resolve_oldest(frame) ==
    LET waiting == {i \in DOMAIN pending_requests :
                        pending_requests[i].state = "pending"}
        first == CHOOSE i \in waiting : \A j \in waiting : i <= j
    IN  IF waiting # {}
        THEN [pending_requests EXCEPT ![first] = set_result(frame)]
        ELSE pending_requests

\* a version of Resolve that sets the result without asking future.done()
Resolve_late(frame) ==
    IF frame.id \in DOMAIN pending_requests
    THEN [pending_requests EXCEPT ![frame.id] = set_result(frame)]
    ELSE pending_requests

\* _process_events, lines 288-297: the table after a frame has been handled
Resolve(frame) ==
    IF frame.id \in DOMAIN pending_requests
       /\ pending_requests[frame.id].state = "pending"
    THEN [pending_requests EXCEPT ![frame.id] = set_result(frame)]
    ELSE pending_requests

\* a version of handle_event_kind that forwards every frame that has a type
handle_event_any(event_type) ==
    IF event_type = NoKey THEN "none" ELSE "INFO"

\* _handle_event, lines 320-359: the kind of the event a frame of this type
\* is put as, "none" when it is only logged
handle_event_kind(event_type) ==
    CASE event_type = "order_update" -> "ORDER_UPDATE"
      [] event_type = "trade" -> "TRADE_UPDATE"
      [] event_type \in {"order_book_update", "ticker_update"} -> "MARKET_DATA"
      [] event_type = "error" -> "ERROR"
      [] event_type = "info" -> "INFO"
      [] OTHER -> "none"

\* a version of Unmatched that also forwards a frame whose request has its
\* result already
Unmatched_done(frame) ==
    \/ frame.id \notin DOMAIN pending_requests
    \/ pending_requests[frame.id].state # "pending"

\* _process_events, lines 290 and 295-297: the frame goes to _handle_event
Unmatched(frame) == frame.id \notin DOMAIN pending_requests

\* the client puts an event: Event.__init__ and EventEngine.put
Publish(event_type, data) ==
    /\ Len(published) < MaxEvents
    /\ put(Event(Len(published) + 1, event_type, data))

\* Event.__init__, line 55: data.copy() raises AttributeError when the data of
\* the frame is a string, a number, a boolean or null
CopyRaises(frame) == frame.shape = "data_scalar"

\* _handle_event, lines 320-359
handle_event(frame) ==
    IF handle_event_kind(frame.type) # "none" /\ ~CopyRaises(frame)
    THEN Publish(handle_event_kind(frame.type), GetData(frame))
    ELSE UNCHANGED <<event_queue, published, taken>>

\* _process_events, lines 287-297: the statements of the try block raise.
\* json.loads raises on a text that is not JSON (line 287), "id" in message
\* raises TypeError on a number, a boolean or null (line 290), event.get raises
\* AttributeError on a list (line 320), and Event() raises when it copies data
\* that is no mapping (event_system.py, line 55)
Raises(frame) ==
    \/ frame.shape \in {"invalid", "scalar", "array"}
    \/ /\ Unmatched(frame)
       /\ handle_event_kind(frame.type) # "none"
       /\ CopyRaises(frame)

\* a version of Classified that looks every frame up in the table
Classified_all(frame) == TRUE

\* _process_events, lines 287-290: the frame is JSON and "id" in message has a
\* value, so that lines 291-297 run
Classified(frame) == frame.shape \notin {"invalid", "scalar", "array"}

\* _process_events, lines 282-302: recv() returns a frame; when a statement of
\* the try block raises, an except clause of the loop logs it and the loop
\* goes round
process_events_frame ==
    /\ rpc = "recv" /\ ~rcancel
    /\ inbox[rws] # <<>>
    /\ inbox' = [inbox EXCEPT ![rws] = Tail(@)]
    /\ pending_requests' = IF Classified(Head(inbox[rws]))
                           THEN Resolve(Head(inbox[rws]))
                           ELSE pending_requests
    /\ IF Classified(Head(inbox[rws])) /\ Unmatched(Head(inbox[rws]))
       THEN handle_event(Head(inbox[rws]))
       ELSE UNCHANGED <<event_queue, published, taken>>
    /\ dropped' = IF Raises(Head(inbox[rws])) THEN dropped + 1 ELSE dropped
    /\ LoopTop
    /\ UNCHANGED <<heap, eRest, cConn, message_id, calls, last, rcancel, tstate,
                   wire, cConnect, cDisc>>

\* _process_events, lines 286 and 301: recv() raises on a closed transport and
\* the except clause inside the loop catches the error
process_events_closed ==
    /\ rpc = "recv" /\ ~rcancel
    /\ inbox[rws] = <<>> /\ tstate[rws] = "closed"
    /\ rpc' = "except"
    /\ UNCHANGED <<heap, dropped, evars, cConn, cReq, rws, rcancel, cNet, cConnect,
                   cDisc>>

\* _process_events, lines 302 and 279-286: the error is logged and the loop
\* goes round again
process_events_retry ==
    /\ rpc = "except" /\ ~rcancel
    /\ LoopTop
    /\ UNCHANGED <<heap, dropped, evars, cConn, cReq, rcancel, cNet, cConnect, cDisc>>

\* _process_events, lines 307-309: the cancellation reaches the coroutine at
\* the await it is at, or at its next one
process_events_cancelled ==
    /\ rpc \in {"new", "recv", "except"} /\ rcancel
    /\ rpc' = "done"
    /\ rws' = None
    /\ rcancel' = FALSE
    /\ UNCHANGED <<heap, dropped, evars, cConn, cReq, cNet, cConnect, cDisc>>

\* a version of Disconnected that keeps the status it finds
Disconnected_keep ==
    /\ connection_status' = connection_status
    /\ ws' = None
    /\ dpc' = "idle"
    /\ dws' = None

\* _cleanup, line 221, and disconnect(), lines 209-210
Disconnected ==
    /\ connection_status' = "disconnected"
    /\ ws' = None
    /\ dpc' = "idle"
    /\ dws' = None

\* _cleanup, lines 216-218, entered from disconnect(): close() is awaited
\* when a transport is held
Cleanup ==
    IF ws # None
    THEN dpc' = "close" /\ dws' = ws /\ UNCHANGED <<connection_status, ws>>
    ELSE Disconnected

\* disconnect(), lines 198-206: the receive loop, if any, is cancelled and
\* awaited; without one the cleanup starts at once
disconnect_call ==
    /\ dpc = "idle"
    /\ IF task # "none"
       THEN /\ rcancel' = (rpc \in {"new", "recv", "except"})
            /\ dpc' = "join"
            /\ UNCHANGED <<connection_status, ws, dws>>
       ELSE /\ Cleanup
            /\ UNCHANGED rcancel
    /\ UNCHANGED <<heap, dropped, evars, task, cReq, rpc, rws, cNet, cConnect>>

\* disconnect(), lines 201-209: the awaited task has ended
disconnect_joined ==
    /\ dpc = "join" /\ rpc = "done"
    /\ task' = "none"
    /\ Cleanup
    /\ UNCHANGED <<heap, evars, cReq, cTask, cNet, cConnect>>

\* _cleanup, lines 218-221, and disconnect(), line 210: close() has ended
disconnect_closed ==
    /\ dpc = "close"
    /\ close(dws)
    /\ Disconnected
    /\ UNCHANGED <<heap, evars, task, cReq, cTask, cConnect>>

\* the peer answers a request it has received
peer_send(w, frame) ==
    /\ tstate[w] = "open"
    /\ Len(inbox[w]) < MaxInbox
    /\ frame.id \in wire[w]
    /\ inbox' = [inbox EXCEPT ![w] = Append(@, frame)]
    /\ calls' = [calls EXCEPT ![frame.id].answered =
                    @ \/ (/\ calls[frame.id].op = "authenticate"
                          /\ frame.status = "success"
                          /\ frame.id \in DOMAIN pending_requests
                          /\ pending_requests[frame.id].state = "pending")]
    /\ UNCHANGED <<heap, evars, cConn, message_id, pending_requests, last, cTask,
                   tstate, wire, cConnect, cDisc>>

\* the peer closes the connection
peer_close(w) ==
    /\ tstate[w] = "open"
    /\ tstate' = [tstate EXCEPT ![w] = "closed"]
    /\ wire' = [wire EXCEPT ![w] = {}]
    /\ UNCHANGED <<heap, evars, cConn, cReq, cTask, inbox, cConnect, cDisc>>

Frames ==
    {Frame(i, NoKey, st, NoKey, <<>>) : i \in 1..MaxRequests, st \in Statuses}

\* ------------------------------------------------------------ order operations
\* the arguments of create_order: the price is NoKey when it is None
CreateArgs ==
    {[NoArgs EXCEPT !.exchange = "binance", !.market = "BTC-USDT",
                    !.side = "buy", !.order_type = a[1], !.price = a[2]] :
        a \in {<<"limit", "100">>, <<"limit", NoKey>>, <<"market", NoKey>>}}

CancelArgs ==
    {[NoArgs EXCEPT !.exchange = a[1], !.market = a[2], !.order_id = a[3]] :
        a \in {<<"binance", "BTC-USDT", "o1">>, <<"kucoin", "ETH-USDT", "o2">>}}

\* the data of a response to create_order
OrderData == {<<"order_id", "o1">>, <<"status", "open">>}

\* the responses of the peer to order operations
OrderFrames ==
    {Frame(i, NoKey, "success", NoKey, d) :
        i \in 1..MaxRequests, d \in {<<>>, <<OrderData>>}}
    \cup {Frame(i, NoKey, "error", "insufficient funds", <<>>) :
        i \in 1..MaxRequests}

\* the payload of the Error event, lines 426-433 and 493-501
ErrorPayload(op, args) ==
    IF op = "create_order"
    THEN {<<"message", "Failed to create", args.order_type, args.side,
            "order for", args.market, "on", args.exchange>>,
          <<"exchange", args.exchange>>, <<"market", args.market>>}
    ELSE {<<"message", "Failed to cancel order", args.order_id, "for",
            args.market, "on", args.exchange>>,
          <<"exchange", args.exchange>>, <<"market", args.market>>,
          <<"order_id", args.order_id>>}

\* the payload of the OrderUpdate event, lines 411-416 and 478-483
UpdatePayload(op, args, response) ==
    IF op = "create_order"
    THEN GetData(response)
    ELSE {<<"order_id", args.order_id>>, <<"status", "cancelled">>,
          <<"exchange", args.exchange>>, <<"market", args.market>>}

\* line 387
Invalid(args) == args.order_type = "limit" /\ args.price = NoKey

\* the order operations that have not ended: each will put one event
OrdersInProgress == {i \in 1..Len(calls) : InProgress(i)
                                          /\ calls[i].op \in OrderOps}

\* a version of order_call that raises without publishing
order_call_silent(op, args) ==
    /\ Len(published) + Cardinality(OrdersInProgress) < MaxOrders
    /\ IF ws = None
       THEN /\ last' = [NoLast EXCEPT !.outcome = "not_connected",
                           !.error = OrderError(op, "not_connected", NoFrame)]
            /\ UNCHANGED <<message_id, pending_requests, calls>>
       ELSE /\ message_id < MaxRequests
            /\ RegisteredOrder(op, ws, args)
    /\ UNCHANGED <<heap, evars, cConn, cTask, cNet, cConnect, cDisc>>

\* an order operation awaits _send_request (lines 405 and 467): without a
\* transport it raises at line 231, the except clause publishes the Error
\* event and raises again
order_call(op, args) ==
    /\ Len(published) + Cardinality(OrdersInProgress) < MaxOrders
    /\ IF ws = None
       THEN /\ Publish("ERROR", ErrorPayload(op, args))
            /\ last' = [NoLast EXCEPT !.outcome = "not_connected",
                           !.error = OrderError(op, "not_connected", NoFrame)]
            /\ UNCHANGED <<message_id, pending_requests, calls>>
       ELSE /\ message_id < MaxRequests
            /\ RegisteredOrder(op, ws, args)
            /\ UNCHANGED <<event_queue, published, taken>>
    /\ UNCHANGED <<heap, eRest, cConn, cTask, cNet, cConnect, cDisc>>

\* a version of create_order without the check of line 387
create_order_unchecked(args) == order_call("create_order", args)

\* create_order, lines 387-405
create_order(args) ==
    IF Invalid(args)
    THEN /\ last' = [NoLast EXCEPT !.outcome = "ValueError"]
         /\ UNCHANGED <<heap, evars, cConn, message_id, pending_requests, calls,
                        cTask, cNet, cConnect, cDisc>>
    ELSE order_call("create_order", args)

\* cancel_order, lines 459-467
cancel_order(args) == order_call("cancel_order", args)

\* lines 407 and 469
Succeeded(i) == Ending(i) = "response" /\ Result(i).status = "success"

\* create_order, lines 411-418: Event(ORDER_UPDATE, order_data) raises
\* AttributeError at data.copy() when the data of the success response is a
\* string, a number, a boolean or null; cancel_order builds its payload from
\* the arguments (lines 477-482)
PayloadRaises(i, op) ==
    Succeeded(i) /\ op = "create_order" /\ CopyRaises(Result(i))

\* how an order operation ends: as its _send_request call does, or with the
\* AttributeError, which the except clause of line 422 does not catch
OrderEnding(i, op) ==
    IF PayloadRaises(i, op) THEN "AttributeError" ELSE Ending(i)

\* lines 407-434 and 469-502: the event an order operation puts before it
\* returns or raises. CancelledError and AttributeError are no
\* HummingbotClientException, so the except clause puts nothing for them
OrderPublishes(i, op) ==
    IF Ending(i) = "cancelled" \/ PayloadRaises(i, op)
    THEN UNCHANGED <<event_queue, published, taken>>
    ELSE IF Succeeded(i)
    THEN Publish("ORDER_UPDATE", UpdatePayload(op, calls[i].args, Result(i)))
    ELSE Publish("ERROR", ErrorPayload(op, calls[i].args))

\* a version of order_return that publishes no Error event
order_return_silent(i, op) ==
    /\ InProgress(i) /\ calls[i].op = op
    /\ Ending(i) # "none"
    /\ Returned(i, Ending(i), Result(i))
    /\ IF Succeeded(i)
       THEN Publish("ORDER_UPDATE", UpdatePayload(op, calls[i].args, Result(i)))
       ELSE UNCHANGED <<event_queue, published, taken>>
    /\ UNCHANGED <<heap, eRest, cConn, cTask, cNet, cConnect, cDisc>>

\* a version of order_return that publishes the data of the response
order_return_data(i, op) ==
    /\ InProgress(i) /\ calls[i].op = op
    /\ Ending(i) # "none"
    /\ Returned(i, Ending(i), Result(i))
    /\ IF Succeeded(i)
       THEN Publish("ORDER_UPDATE", GetData(Result(i)))
       ELSE Publish("ERROR", ErrorPayload(op, calls[i].args))
    /\ UNCHANGED <<heap, eRest, cConn, cTask, cNet, cConnect, cDisc>>

\* the _send_request call of an order operation ends and the operation
\* publishes its event and returns or raises: lines 405-436 and 467-504
order_return(i, op) ==
    /\ InProgress(i) /\ calls[i].op = op
    /\ Ending(i) # "none"
    /\ Returned(i, OrderEnding(i, op), Result(i))
    /\ OrderPublishes(i, op)
    /\ UNCHANGED <<heap, eRest, cConn, cTask, cNet, cConnect, cDisc>>

create_order_return(i) == order_return(i, "create_order")

cancel_order_return(i) == order_return(i, "cancel_order")

\* the task awaiting a domain operation is cancelled. At the await of send()
\* CancelledError passes the except clauses of _send_request and its finally
\* clause runs (lines 269-272). At wait_for with the future pending, wait_for
\* cancels the future and awaits it for one turn of the event loop, with the
\* entry still in the table, before CancelledError reaches the finally
\* clause. At wait_for with the result set, wait_for returns the result and
\* the operation goes on as if it had not been cancelled. At wait_for after
\* the timeout has cancelled the future, CancelledError reaches the finally
\* clause.
send_request_cancelled(i) ==
    /\ InProgress(i) /\ calls[i].op # "authenticate" /\ ~calls[i].cancel
    /\ IF calls[i].pc = "wait" /\ pending_requests[i].state = "pending"
       THEN /\ pending_requests' = [pending_requests EXCEPT ![i] = Cancelled]
            /\ calls' = [calls EXCEPT ![i].cancel = TRUE]
            /\ UNCHANGED <<message_id, last, evars>>
       ELSE IF calls[i].pc = "wait" /\ pending_requests[i].state = "done"
       THEN IF calls[i].op \in OrderOps
            THEN /\ Returned(i, OrderEnding(i, calls[i].op), Result(i))
                 /\ OrderPublishes(i, calls[i].op)
                 /\ UNCHANGED eRest
            ELSE /\ Returned(i, "response", Result(i))
                 /\ UNCHANGED evars
       ELSE /\ Returned(i, "cancelled", NoFrame)
            /\ UNCHANGED evars
    /\ UNCHANGED <<heap, cConn, cTask, cNet, cConnect, cDisc>>

NextOrders ==
    \/ connected_client
    \/ \E args \in CreateArgs : create_order(args)
    \/ \E args \in CancelArgs : cancel_order(args)
    \/ \E i \in 1..MaxRequests : send_request_sent(i)
    \/ \E i \in 1..MaxRequests : send_request_timeout(i)
    \/ \E i \in 1..MaxRequests : create_order_return(i)
    \/ \E i \in 1..MaxRequests : cancel_order_return(i)
    \/ \E i \in 1..MaxRequests : send_request_cancelled(i)
    \/ process_events_start
    \/ process_events_frame
    \/ \E w \in Transports, frame \in OrderFrames : peer_send(w, frame)
    \/ \E w \in Transports : peer_close(w)

SpecOrders == Init /\ [][NextOrders]_vars

connect ==
    \/ connect_call
    \/ \E ok \in BOOLEAN : connect_opened(ok)
    \/ connect_auth_done
    \/ connect_cleanup_done

disconnect ==
    \/ disconnect_call
    \/ disconnect_joined
    \/ disconnect_closed

process_events_client ==
    \/ process_events_start
    \/ process_events_frame
    \/ process_events_closed
    \/ process_events_retry
    \/ process_events_cancelled

NextClient ==
    \/ connected_client
    \/ connect
    \/ disconnect
    \/ process_events_client
    \/ \E op \in Ops : send_request(op)
    \/ \E i \in 1..MaxRequests : send_request_sent(i)
    \/ \E i \in 1..MaxRequests : send_request_timeout(i)
    \/ \E i \in 1..MaxRequests : send_request_return(i)
    \/ \E i \in 1..MaxRequests : send_request_cancelled(i)
    \/ \E w \in Transports, frame \in Frames : peer_send(w, frame)
    \/ \E w \in Transports : peer_close(w)

SpecClient == Init /\ [][NextClient]_vars

\* the event loop resumes a coroutine that can go on: a disconnect() that
\* has been called (its await of the cancelled task and of close() end) and
\* the cancelled task. Whether disconnect() is called is up to the
\* application: disconnect_call is under no fairness
FairClient ==
    WF_vars(disconnect_joined \/ disconnect_closed \/ process_events_cancelled)

FairSpecClient == SpecClient /\ FairClient

\* the client whose requests all go unanswered, over two connections
NextReconnect ==
    \/ connected_client
    \/ connect
    \/ disconnect
    \/ process_events_start
    \/ process_events_cancelled
    \/ \E op \in Ops : send_request(op)
    \/ \E i \in 1..MaxRequests : send_request_sent(i)
    \/ \E i \in 1..MaxRequests : send_request_timeout(i)
    \/ \E i \in 1..MaxRequests : send_request_return(i)

SpecReconnect == InitReconnect /\ [][NextReconnect]_vars

\* ------------------------------------------------------------ push frames
\* the type values of inbound frames: the six the protocol names, one it does
\* not name, and NoKey for a frame without a type
PushTypes ==
    {"order_update", "trade", "order_book_update", "ticker_update", "error",
     "info", "heartbeat", NoKey}

\* the data object of a push frame
PushData == {<<"symbol", "ETH-USD">>}

\* the frames the peer sends of its own accord: without an id, with and
\* without data, and with the id of a request of the client
PushFrames ==
    {Frame(0, ty, NoKey, NoKey, <<PushData>>) : ty \in PushTypes}
    \cup {Frame(0, ty, NoKey, NoKey, <<>>) : ty \in {"trade", "heartbeat"}}
    \cup {Frame(i, ty, NoKey, NoKey, <<PushData>>) :
            i \in 1..MaxRequests, ty \in {"info", NoKey}}

\* the peer sends a frame, as long as the log of the events put has room for
\* the events of the frames under way
peer_push(w, frame) ==
    /\ tstate[w] = "open"
    /\ Len(inbox[w]) < MaxInbox
    /\ Len(published) + Len(inbox[w]) < MaxEvents
    /\ inbox' = [inbox EXCEPT ![w] = Append(@, frame)]
    /\ UNCHANGED <<heap, evars, cConn, cReq, cTask, tstate, wire, cConnect, cDisc>>

NextPush ==
    \/ connected_client
    \/ \E op \in Ops : send_request(op)
    \/ \E i \in 1..MaxRequests : send_request_sent(i)
    \/ \E i \in 1..MaxRequests : send_request_return(i)
    \/ process_events_start
    \/ process_events_frame
    \/ \E w \in Transports, frame \in PushFrames : peer_push(w, frame)

SpecPush == Init /\ [][NextPush]_vars

\* the client and a peer that also sends frames the loop cannot use
ListData == {<<"0", "ETH-USD">>}

\* a text that is not JSON (a response cut short), a JSON number, a JSON list
\* of one push object, push frames whose data is a string, and a push frame
\* whose data is a list (written as the set of its <<index, value>> pairs)
MalformedFrames ==
    {[Frame(i, NoKey, "success", NoKey, <<>>) EXCEPT !.shape = "invalid"] :
        i \in 0..MaxRequests}
    \cup {[Frame(0, NoKey, NoKey, NoKey, <<>>) EXCEPT !.shape = "scalar"]}
    \cup {[Frame(i, "trade", NoKey, NoKey, <<PushData>>)
              EXCEPT !.shape = "array"] : i \in 0..1}
    \cup {[Frame(0, ty, NoKey, NoKey, <<>>) EXCEPT !.shape = "data_scalar"] :
            ty \in {"trade", "heartbeat"}}
    \cup {[Frame(0, "trade", NoKey, NoKey, <<ListData>>)
              EXCEPT !.shape = "data_array"]}

WellFormedFrames ==
    {Frame(0, "trade", NoKey, NoKey, <<PushData>>)}
    \cup {Frame(i, NoKey, "success", NoKey, <<>>) : i \in 1..MaxRequests}

\* no operation is under way
Quiet == \A i \in 1..Len(calls) : ~InProgress(i)

\* the peer sends such a frame, as long as the frames under way are fewer than
\* the events the log has room for
peer_push_malformed(w, frame) ==
    /\ dropped + Len(inbox[w]) < MaxEvents
    /\ peer_push(w, frame)

NextMalformed ==
    \/ connected_client
    \/ \E op \in Ops : send_request(op)
    \/ \E i \in 1..MaxRequests : send_request_sent(i)
    \/ \E i \in 1..MaxRequests : send_request_return(i)
    \/ process_events_start
    \/ process_events_frame
    \/ \E w \in Transports, frame \in MalformedFrames :
            peer_push_malformed(w, frame)
    \/ \E w \in Transports, frame \in WellFormedFrames : peer_push(w, frame)

SpecMalformed == Init /\ [][NextMalformed]_vars

\* success responses whose data is a string, a number or null
ScalarResponses ==
    {[Frame(i, NoKey, "success", NoKey, <<>>) EXCEPT !.shape = "data_scalar"] :
        i \in 1..MaxRequests}

\* a connected client whose peer answers order requests with data of any
\* JSON type
NextOrderData ==
    \/ connected_client
    \/ \E args \in CreateArgs : Quiet /\ create_order(args)
    \/ \E args \in CancelArgs : Quiet /\ cancel_order(args)
    \/ \E i \in 1..MaxRequests : send_request_sent(i)
    \/ \E i \in 1..MaxRequests : create_order_return(i)
    \/ \E i \in 1..MaxRequests : cancel_order_return(i)
    \/ process_events_start
    \/ process_events_frame
    \/ \E w \in Transports, frame \in OrderFrames \cup ScalarResponses :
          peer_send(w, frame)

SpecOrderData == Init /\ [][NextOrderData]_vars

\* a client on which every operation is called, connected or not, by a caller
\* that awaits each operation before it calls the next, and whose peer
\* answers and sends trade frames of its own
NextReadOnly ==
    \/ connected_client
    \/ \E op \in ReadOps : Quiet /\ send_request(op)
    \/ \E op \in ReadOps : send_request_refused(op)
    \/ \E args \in CreateArgs : Quiet /\ create_order(args)
    \/ \E args \in CancelArgs : Quiet /\ cancel_order(args)
    \/ \E i \in 1..MaxRequests : send_request_sent(i)
    \/ \E i \in 1..MaxRequests : send_request_timeout(i)
    \/ \E i \in 1..MaxRequests : send_request_return(i)
    \/ \E i \in 1..MaxRequests : create_order_return(i)
    \/ \E i \in 1..MaxRequests : cancel_order_return(i)
    \/ process_events_start
    \/ process_events_frame
    \/ \E w \in Transports, frame \in Frames : peer_send(w, frame)
    \/ \E w \in Transports :
          peer_push(w, Frame(0, "trade", NoKey, NoKey, <<PushData>>))

SpecReadOnly == Init /\ [][NextReadOnly]_vars

\* frames that bear a request id, with and without the type of a push
DuplicateFrames ==
    {Frame(i, ty, st, NoKey, <<PushData>>) :
        i \in 1..MaxRequests, ty \in {NoKey, "trade"}, st \in Statuses}

\* a connected client whose peer answers a request any number of times
NextDuplicate ==
    \/ connected_client
    \/ \E op \in Ops : send_request(op)
    \/ \E i \in 1..MaxRequests : send_request_sent(i)
    \/ \E i \in 1..MaxRequests : send_request_timeout(i)
    \/ \E i \in 1..MaxRequests : send_request_return(i)
    \/ process_events_start
    \/ process_events_frame
    \/ \E w \in Transports, frame \in DuplicateFrames : peer_send(w, frame)

SpecDuplicate == Init /\ [][NextDuplicate]_vars

\* the client from construction on, with connect() as the only way to a
\* connection; no connect() gets as far as starting the receive loop, so the
\* steps of the loop and of joining it are left out
NextLifecycle ==
    \/ connect
    \/ disconnect_call
    \/ disconnect_closed
    \/ \E op \in Ops : send_request(op)
    \/ \E op \in Ops : send_request_refused(op)
    \/ \E i \in 1..MaxRequests : send_request_sent(i)
    \/ \E i \in 1..MaxRequests : send_request_timeout(i)
    \/ \E i \in 1..MaxRequests : send_request_return(i)
    \/ \E w \in DOMAIN tstate, frame \in Frames : peer_send(w, frame)
    \/ \E w \in DOMAIN tstate : peer_close(w)

SpecLifecycle == InitReconnect /\ [][NextLifecycle]_vars

\* ------------------------------------------------------------ Event payload
\* A mapping object is a set of <<key, value>> pairs; a value is an atom or a
\* reference to another mapping object.
\* d[key] = value
SetItem(d, key, value) == {p \in d : p[1] # key} \cup {<<key, value>>}

\* dict.copy(): a new mapping with the same keys and the same values, so a
\* value that is a reference refers to the same object in the copy
dict_copy(d) == {<<p[1], p[2]>> : p \in d}

\* a producer builds the payload {"price": price, "bids": {"0": level}}
producer_builds(price, level) ==
    /\ heap.payload = NoRef
    /\ heap' = [heap EXCEPT
                  !.objs = [@ EXCEPT !["@1"] = {<<"price", price>>,
                                               <<"bids", "@2">>},
                                     !["@2"] = {<<"0", level>>}],
                  !.payload = "@1"]
    /\ UNCHANGED <<evars, cvars>>

\* Event.__init__, line 55: self.data = data.copy()
Event_init ==
    /\ heap.payload # NoRef /\ heap.data = NoRef
    /\ heap' = [heap EXCEPT !.objs["@3"] = dict_copy(heap.objs[heap.payload]),
                            !.data = "@3"]
    /\ UNCHANGED <<evars, cvars>>

\* the producer assigns to a key of the mapping it built: payload[key] = value
producer_sets(key, value) ==
    /\ heap.payload # NoRef
    /\ heap' = [heap EXCEPT !.objs[heap.payload] = SetItem(@, key, value)]
    /\ UNCHANGED <<evars, cvars>>

\* the producer assigns inside the nested mapping: payload["bids"]["0"] = value
producer_sets_nested(value) ==
    /\ heap.payload # NoRef
    /\ <<"bids", "@2">> \in heap.objs[heap.payload]
    /\ heap' = [heap EXCEPT !.objs["@2"] = SetItem(@, "0", value)]
    /\ UNCHANGED <<evars, cvars>>

\* what a handler reads from event.data: the keys with their values, and
\* under each key that holds a mapping the content of that mapping
Observed ==
    LET d == heap.objs[heap.data]
    IN  [top |-> d,
         nested |-> {<<p[1], heap.objs[p[2]]>> : p \in {q \in d : q[2] \in Refs}}]

NextPayload ==
    \/ \E price \in Atoms, level \in Atoms : producer_builds(price, level)
    \/ Event_init
    \/ \E key \in {"price", "bids"}, value \in Atoms : producer_sets(key, value)
    \/ \E value \in Atoms : producer_sets_nested(value)

SpecPayload == Init /\ [][NextPayload]_vars

\* ------------------------------------------------------------ claims, engine
FanoutOver(t) == tpc[t] = "fanout" /\ tidx[t] > Len(tsnap[t])

\* the snapshot positions the for loop of thread t has passed
Passed(t) == SubSeq(tsnap[t], 1, tidx[t] - 1)

\* the queue hands every event out at most once, and the event a fan-out
\* carries is equal by kind and payload to the one that was put
HandedOutOnce ==
    /\ \A n \in 1..Len(taken) : taken[n] <= 1
    /\ \A t \in Threads : tpc[t] = "fanout" => EventEq(tev[t], published[tev[t].id])

\* in a fan-out every listener that was registered when the snapshot was taken
\* and accepts the event's kind is invoked at most once, and exactly once when
\* the fan-out is over
C1_OncePerListener ==
    /\ HandedOutOnce
    /\ \A t \in Threads : tpc[t] = "fanout" =>
        \A l \in ListenerNames :
             (tregs[t][l] >= 1 /\ can_handle_event_type(l, tev[t].type)) =>
                /\ tcalls[t][l] <= 1
                /\ FanoutOver(t) => tcalls[t][l] = 1

\* in a fan-out every listener that accepts the event's kind is invoked at
\* most once for each registration it held when the snapshot was taken, and
\* exactly that many times when the fan-out is over
C1_Safe ==
    /\ HandedOutOnce
    /\ \A t \in Threads : tpc[t] = "fanout" =>
        \A l \in ListenerNames :
             can_handle_event_type(l, tev[t].type) =>
                /\ tcalls[t][l] <= tregs[t][l]
                /\ FanoutOver(t) => tcalls[t][l] = tregs[t][l]

\* no event is queued or being fanned out
Drained == Done = 1..Len(published)

C1_Live == (<>[]running) => []<>Drained

\* C1 as stated: every event passed to put() is handed out by the queue at most
\* once, and when the engine is running or runs later its fan-out finishes; in
\* that fan-out every registered listener that accepts the event's kind has its
\* handle_event invoked exactly once, never more, with an event equal by kind
\* and payload to the one that was put.
C1_ExactlyOnce == []C1_OncePerListener /\ C1_Live

\* C1 as amended: every event passed to put() is handed out by the queue at
\* most once, and when the engine is running or runs later its fan-out
\* finishes; in that fan-out a listener that accepts the event's kind has its
\* handle_event invoked exactly once for each registration it held when the
\* snapshot was taken (once when it is registered once, twice when it was
\* registered twice), with an event equal by kind and payload to the one that
\* was put.
C1_OncePerRegistration == []C1_Safe /\ C1_Live

\* a finished fan-out of an event handed out once has invoked a listener
\* registered twice two times, and every other accepting listener once per
\* registration
C1_Witness ==
    \E t \in Threads :
        /\ FanoutOver(t)
        /\ taken[tev[t].id] = 1
        /\ \E l \in ListenerNames :
            /\ tregs[t][l] = 2
            /\ can_handle_event_type(l, tev[t].type)
            /\ tcalls[t][l] = 2
        /\ \A l \in ListenerNames :
            can_handle_event_type(l, tev[t].type) => tcalls[t][l] = tregs[t][l]

\* C2: in a fan-out in which a handler has raised, every listener of the
\* snapshot that the loop has passed and that accepts the event's kind has been
\* invoked, once per occurrence in the snapshot: a raise ends no fan-out early.
C2_FaultIsolation ==
    \A t \in Threads : (tpc[t] = "fanout" /\ traised[t] > 0) =>
        \A l \in ListenerNames :
            tcalls[t][l] = IF can_handle_event_type(l, tev[t].type)
                           THEN Count(l, Passed(t)) ELSE 0

C2_Witness ==
    \E t \in Threads :
        /\ FanoutOver(t)
        /\ traised[t] = 1
        /\ Len(tsnap[t]) >= 2
        /\ tsnap[t][2] # tsnap[t][1]
        /\ can_handle_event_type(tsnap[t][2], tev[t].type)
        /\ tcalls[t][tsnap[t][2]] = 1

\* C3: a listener's handler is never invoked with an event whose kind is not
\* in the listener's event_types.
C3_OnlyAcceptedKinds ==
    \A t \in Threads : \A l \in ListenerNames :
        tcalls[t][l] > 0 => tev[t].type \in event_types(l)

C3_Witness ==
    \E t \in Threads :
        /\ FanoutOver(t)
        /\ "la" \in Range(tsnap[t])
        /\ tev[t].type \notin event_types("la")
        /\ tcalls[t]["la"] = 0
        /\ tcalls[t]["lb"] >= 1

\* C4 as stated: no handler is invoked while its listener holds no
\* registration, that is after the unregister_listener that removed the last
\* one has returned.
C4_NoCallAfterUnregister == \A t \in Threads : tlate[t] = {}

\* C4 as amended: a handler is invoked only from a snapshot taken while its
\* listener held a registration (so never for an event whose fan-out starts
\* after unregister_listener removed the last one); unregister_listener(L)
\* removes one registration of L and none of another listener, and a finished
\* fan-out has invoked every accepting listener once per registration it held
\* when the snapshot was taken.
C4_NoCallFromLaterSnapshot ==
    /\ \A l \in ListenerNames : Count(l, listeners) = regs[l]
    /\ \A t \in Threads : \A l \in ListenerNames :
        /\ tcalls[t][l] > 0 => tregs[t][l] > 0
        /\ (FanoutOver(t) /\ can_handle_event_type(l, tev[t].type)) =>
               tcalls[t][l] = tregs[t][l]

C4_Witness ==
    \E t \in Threads :
        /\ FanoutOver(t)
        /\ "la" \in unreg
        /\ tregs[t]["la"] = 0
        /\ can_handle_event_type("la", tev[t].type)
        /\ tcalls[t]["la"] = 0
        /\ tcalls[t]["lb"] = 1

\* ------------------------------------------------------------ claims, client
CallIds == 1..Len(calls)

\* C5: with several requests outstanding, a future of the pending table is
\* only ever resolved with the frame that bears the id of its own request, and
\* a call that returns a response returns a frame bearing its own id, in
\* whatever order the peer answers.
C5_ResponseToOwnCaller ==
    /\ \A i \in DOMAIN pending_requests :
          pending_requests[i].state = "done"
             => pending_requests[i].result.id = i
    /\ last.outcome = "response" => last.got.id = last.id

\* the second request has returned its response while the first, issued
\* earlier, was still waiting and has been answered afterwards
C5_Witness ==
    /\ Len(calls) >= 2
    /\ last.id = 2 /\ last.outcome = "response"
    /\ calls[1].pc = "wait"
    /\ pending_requests[1].state = "done"

\* C6: once request_timeout has passed for request i without a response, a
\* late response does not change its future, and the step that ends the call
\* raises to that caller, removes exactly entry i from the pending table and
\* leaves the entries and the calls of all other requests as they were.
C6_TimeoutOwnEntryOnly ==
    [][\A i \in DOMAIN pending_requests :
          pending_requests[i].state = "cancelled"
             => \/ /\ i \in DOMAIN pending_requests'
                   /\ pending_requests'[i] = pending_requests[i]
                   /\ calls'[i] = calls[i]
                \/ /\ calls'[i].pc = "done"
                   /\ last'.id = i
                   /\ last'.outcome \in {"timeout", "cancelled"}
                   /\ pending_requests' = Without(pending_requests, i)
                   /\ \A j \in CallIds \ {i} : calls'[j] = calls[j]]_vars

\* one request has timed out while another one is still waiting with its
\* entry in the table
C6_Witness ==
    \E j \in CallIds :
        /\ last.outcome = "timeout"
        /\ calls[j].pc = "wait"
        /\ j \in DOMAIN pending_requests
        /\ pending_requests[j].state = "pending"

\* the ids of the calls of _send_request that have not ended
InProgressIds == {i \in CallIds : calls[i].pc \in {"send", "wait"}}

C7_TableIsCallsInProgress == DOMAIN pending_requests = InProgressIds

C7_RemovedAtReturn ==
    [][\A i \in DOMAIN pending_requests :
          i \notin DOMAIN pending_requests'
             => calls[i].pc # "done" /\ calls'[i].pc = "done"]_vars

\* C7: the pending table holds exactly the ids of the request calls in
\* progress (so it is empty when there are none), and an entry leaves the
\* table only in the step in which its call ends, whatever the outcome.
C7_PendingTable == []C7_TableIsCallsInProgress /\ C7_RemovedAtReturn

\* two calls have ended, the last one by a send failure, and the table is
\* empty again
C7_Witness ==
    /\ DOMAIN pending_requests = {}
    /\ Len(calls) >= 2
    /\ \A i \in CallIds : calls[i].pc = "done"
    /\ last.outcome = "failed"

\* C8: when the authenticate request of connect() ends after the peer has
\* answered it with status success before the timeout, connect() returns
\* without raising, Connected, holding the transport, with the receive loop
\* task created.
C8_AnsweredConnectSucceeds ==
    [][(kpc = "auth" /\ kpc' # "auth" /\ calls[kid].answered)
          => /\ kpc' = "idle"
             /\ connection_status' = "connected"
             /\ ws' # None
             /\ task' # "none"]_vars

\* C9: when connect() raises (after websockets.connect failed, or after the
\* cleanup that follows a failed authentication), connection_status is
\* Disconnected and no transport is held.
C9_FailedConnectDisconnected ==
    [][(kpc \in {"open", "cleanup"} /\ kpc' = "idle")
          => connection_status' = "disconnected" /\ ws' = None]_vars

\* the steps in which disconnect() returns
DisconnectReturns ==
    \/ disconnect_call /\ dpc' = "idle"
    \/ disconnect_joined /\ dpc' = "idle"
    \/ disconnect_closed

C10_AtReturn ==
    [][DisconnectReturns
          => /\ connection_status' = "disconnected"
             /\ task' = "none"
             /\ rpc' \notin {"new", "recv", "except"}
             /\ ws' = None
             /\ dws # None => tstate'[dws] = "closed"]_vars

C10_Terminates == (dpc # "idle") ~> (dpc = "idle")

\* C10: disconnect() terminates, and when it returns the receive loop has
\* ended, the transport it held is closed, connection_status is Disconnected
\* and neither a receive-loop task nor a transport is held.
C10_Disconnect == C10_AtReturn /\ C10_Terminates

\* disconnect() has returned after it had joined the cancelled receive loop
\* and closed the transport
C10_Witness ==
    /\ dpc = "idle" /\ connection_status = "disconnected"
    /\ task = "none" /\ rpc = "done" /\ ws = None
    /\ \E w \in Transports : tstate[w] = "closed"

\* ------------------------------------------------------------ claims, orders
\* the event put last
LastPut == published[Len(published)]

\* this step puts exactly one event
PutsOne == Len(published') = Len(published) + 1

\* in this step the _send_request call of request i returns or raises to the
\* order operation op that awaits it
OrderEnds(i, op) ==
    /\ i \in CallIds /\ calls[i].op = op /\ calls[i].pc \in {"send", "wait"}
    /\ calls'[i].pc = "done"
    /\ last'.id = i /\ last'.outcome # "cancelled"

\* C11: when the response correlated to a create_order has status "error",
\* create_order raises the exception carrying the message of the peer and puts
\* exactly one event, of kind Error, so no OrderUpdate event.
C11_CreateOrderError ==
    [][\A i \in DOMAIN pending_requests :
          (/\ OrderEnds(i, "create_order")
           /\ pending_requests[i].state = "done"
           /\ pending_requests[i].result.status = "error")
             => /\ last'.error = pending_requests[i].result.message
                /\ PutsOne
                /\ LastPut'.type = "ERROR"
                /\ LastPut'.data = ErrorPayload("create_order", calls[i].args)
       ]_vars

\* a create_order has raised with the message of the peer and its Error
\* event is the one put last
C11_Witness ==
    /\ last.outcome = "response" /\ last.got.status = "error"
    /\ last.error = "insufficient funds"
    /\ Len(published) = 1
    /\ LastPut.type = "ERROR"
    /\ \E args \in CreateArgs :
          LastPut.data = ErrorPayload("create_order", args)

\* this step is a call of an order operation on a client without transport
NotConnectedCall ==
    /\ ws = None
    /\ \/ \E args \in CreateArgs : ~Invalid(args) /\ create_order(args)
       \/ \E args \in CancelArgs : cancel_order(args)

\* C12: every create_order and cancel_order that ends puts exactly one event:
\* an OrderUpdate, raising nothing, when the response has status success, and
\* an Error together with the raised exception when the client is not
\* connected, the send fails, the request times out or the response is not a
\* success; no other step of the client puts an event.
C12_OneEventPerOrderCall ==
    [][/\ \A i \in CallIds, op \in OrderOps :
            OrderEnds(i, op)
               => /\ PutsOne
                  /\ IF last'.outcome = "response"
                        /\ last'.got.status = "success"
                     THEN LastPut'.type = "ORDER_UPDATE" /\ last'.error = "none"
                     ELSE LastPut'.type = "ERROR" /\ last'.error # "none"
       /\ NotConnectedCall
            => /\ PutsOne
               /\ LastPut'.type = "ERROR"
               /\ last'.error = "Not connected to Hummingbot"
       /\ published' # published
            => \/ NotConnectedCall
               \/ \E i \in CallIds, op \in OrderOps : OrderEnds(i, op)
      ]_vars

\* a cancel_order has timed out and put its Error event
C12_Witness ==
    /\ last.outcome = "timeout" /\ last.error = "Request timed out"
    /\ Len(published) = 1
    /\ LastPut.type = "ERROR"
    /\ \E args \in CancelArgs :
          LastPut.data = ErrorPayload("cancel_order", args)

\* C13: create_order with order_type limit and no price raises ValueError and
\* has no effect: no request id, no pending entry, nothing written to the
\* transport, no event.
C13_LimitWithoutPrice ==
    [][\A args \in CreateArgs :
          (args.order_type = "limit" /\ args.price = NoKey
           /\ create_order(args))
             => /\ last'.outcome = "ValueError"
                /\ UNCHANGED <<message_id, pending_requests, calls, wire,
                               inbox, event_queue, published>>]_vars

\* a connected client has refused a limit order without price: nothing was
\* allocated, written or put
C13_Witness ==
    /\ last.outcome = "ValueError"
    /\ ws # None /\ connection_status = "connected"
    /\ message_id = 0 /\ DOMAIN pending_requests = {}
    /\ published = <<>>

\* C14: when the response correlated to a cancel_order has status success,
\* the operation puts an OrderUpdate event whose payload has status
\* "cancelled" and the order_id, exchange and market of the request.
C14_CancelOrderUpdate ==
    [][\A i \in DOMAIN pending_requests :
          (/\ OrderEnds(i, "cancel_order")
           /\ pending_requests[i].state = "done"
           /\ pending_requests[i].result.status = "success")
             => /\ PutsOne
                /\ LastPut'.type = "ORDER_UPDATE"
                /\ LastPut'.data =
                      {<<"order_id", calls[i].args.order_id>>,
                       <<"status", "cancelled">>,
                       <<"exchange", calls[i].args.exchange>>,
                       <<"market", calls[i].args.market>>}]_vars

\* the cancellation of order o2 on kucoin has succeeded and its OrderUpdate
\* event is the one put last
C14_Witness ==
    /\ last.outcome = "response" /\ last.got.status = "success"
    /\ Len(published) = 1
    /\ LastPut.type = "ORDER_UPDATE"
    /\ LastPut.data = {<<"order_id", "o2">>, <<"status", "cancelled">>,
                       <<"exchange", "kucoin">>, <<"market", "ETH-USDT">>}

\* ------------------------------------------------------------ claims, engine life cycle
\* no dispatch loop exists: none was started or every one has ended
NoLoop == \A t \in Threads : ~Alive(t)

\* the events put and not yet handed out by the queue
Waiting == {n \in 1..Len(published) : taken[n] = 0}

\* put is enabled whatever the engine's state, and it appends to the queue
C15_Accepted ==
    /\ Len(published) < MaxEvents => ENABLED Produce("MARKET_DATA", "d1")
    /\ Waiting = Queued

\* with no loop in existence the queue loses nothing and nothing is handed out
C15_StaysQueued ==
    [][NoLoop =>
        /\ \/ event_queue' = event_queue
           \/ /\ Len(published') = Len(published) + 1
              /\ event_queue' = Append(event_queue, published'[Len(published')])
        /\ \A n \in 1..Len(taken) : taken'[n] = taken[n]
        /\ \A t \in Threads : tev'[t] = NoEvent]_vars

\* an engine that is started and stays running fans out every queued event
C15_Later ==
    (<>[]running) =>
        \A n \in 1..MaxEvents : [](n \in Queued => <>(n \in Done))

\* C15: put(event) is enabled in every state of the engine (never started,
\* running, stopped) and appends the event to the queue; while no dispatch
\* loop exists a queued event is neither dropped nor handed out, and once the
\* engine is started and stays running its fan-out takes place.
C15_PutNeverBlocks == []C15_Accepted /\ C15_StaysQueued /\ C15_Later

\* an event was put on an engine that was never started and is queued
C15_Witness ==
    /\ thread = NoThread
    /\ ~running
    /\ NoLoop
    /\ Len(event_queue) >= 1
    /\ Waiting = Queued

\* C16: the events are numbered in the order of their put() calls (one
\* producer); whenever a dispatch loop holds an event, between the queue's get
\* and the end of its fan-out, the fan-out of every event put earlier has
\* finished, so that handlers see the events one after the other in put order.
C16_FanoutInPutOrder ==
    \A t \in Threads : \A m \in 1..Len(published) :
        (tev[t].id # 0 /\ m < tev[t].id) => m \in Done

\* the threads a step creates and starts
Launched == {t \in Threads : tpc[t] \in {"unborn", "dead"} /\ tpc'[t] = "while"}

\* a caller enters stop()
StopCalled ==
    \E c \in Callers : cpc[c] = "idle" /\ cpc'[c] \in {"stop_join", "stop_return"}

\* a start() call that found _running false has set it and is about to
\* create its thread
Starting == \E c \in Callers : cpc[c] = "start_thread"

\* a step of a start() call that found the engine running
StartNoOp ==
    \E c \in Callers :
        \/ cpc[c] = "idle" /\ cpc'[c] = "start_return"
        \/ cpc[c] = "start_return" /\ cpc'[c] = "idle"

C17_Steps ==
    [][/\ StartNoOp => UNCHANGED <<eFields, eLoop>> /\ running
       /\ Cardinality(Launched) <= 1
       /\ Launched # {} => Starting /\ running' /\ thread' \in Launched
       /\ \A c \in Callers :
             (cpc[c] = "idle" /\ cpc'[c] = "start_set") => ~running
       /\ (~running /\ running') =>
             \E c \in Callers : cpc[c] = "start_set" /\ cpc'[c] = "start_thread"
       /\ (running /\ ~running') => StopCalled]_vars

\* C17: a start() call on a running engine changes no field of the engine and
\* starts no thread; a thread is started only by a start() call that found
\* _running false, one thread per such call, and _running is cleared by stop()
\* alone: the start() calls made since the last stop() have launched exactly one
\* dispatch loop, and that loop is alive while the engine is running and no
\* start() call is between setting _running and starting its thread.
C17_StartIdempotent == C17_Steps /\ []((running /\ ~Starting) => Alive(thread))

\* a second start() call is returning from a running engine that has launched
\* one loop in all
C17_Witness ==
    \E c \in Callers :
        /\ cpc[c] = "start_return"
        /\ running
        /\ {t \in Threads : tpc[t] # "unborn"} = {thread}
        /\ Alive(thread)

\* a caller returns from start()
StartReturns ==
    \E c \in Callers : cpc[c] \in {"start_thread", "start_return"} /\ cpc'[c] = "idle"

\* a caller returns from stop()
StopReturns ==
    \E c \in Callers : cpc[c] \in {"stop_join", "stop_return"} /\ cpc'[c] = "idle"

C18_Steps ==
    [][/\ StartReturns => is_running'
       /\ StopReturns => ~is_running'
       /\ (StopCalled /\ ~is_running) =>
             /\ ~is_running'
             /\ UNCHANGED <<listeners, event_queue, thread, eLoop>>
       /\ (StopReturns /\ \E c \in Callers : cpc[c] = "stop_return") =>
             UNCHANGED <<eFields, eLoop>>]_vars

\* C18: is_running() is false as long as start() has not been called, true in
\* the state in which a start() call returns and false in the state in which a
\* stop() call returns; a stop() call on an engine that is not running changes
\* no field of the engine and goes on to its return.
C18_IsRunning == []((thread = NoThread /\ ~Starting) => ~is_running) /\ C18_Steps

\* a stop() call on an engine that was started and stopped before is at its
\* return
C18_Witness ==
    \E c \in Callers :
        /\ cpc[c] = "stop_return"
        /\ thread # NoThread
        /\ ~Alive(thread)
        /\ ~is_running

\* a handler is being executed by thread t
InHandler(t) ==
    /\ tpc[t] = "fanout"
    /\ tidx[t] <= Len(tsnap[t])
    /\ can_handle_event_type(tsnap[t][tidx[t]], tev[t].type)

\* C19: a caller inside stop() always gets back to its caller: the join is
\* left whatever the dispatch thread does, also when the thread stays inside a
\* handler for ever.
C19_StopReturns ==
    /\ [](\A c \in Callers : cpc[c] = "stop_join" => ENABLED stop_join(c))
    /\ \A c \in Callers :
          (cpc[c] \in {"stop_join", "stop_return"}) ~> (cpc[c] = "idle")

\* stop() has returned and the thread it joined is still inside a handler
C19_Witness ==
    /\ \A c \in Callers : cpc[c] = "idle"
    /\ ~running
    /\ Alive(thread)
    /\ InHandler(thread)
    /\ {t \in Threads : tpc[t] # "unborn"} = {thread}

\* ------------------------------------------------------------ claims, push frames
\* the kind each type is to be forwarded as
PushKinds ==
    {<<"order_update", "ORDER_UPDATE">>, <<"trade", "TRADE_UPDATE">>,
     <<"order_book_update", "MARKET_DATA">>, <<"ticker_update", "MARKET_DATA">>,
     <<"error", "ERROR">>, <<"info", "INFO">>}

\* in this step the receive loop takes a frame that matches no pending request
TakesUnmatched ==
    /\ rpc = "recv"
    /\ inbox[rws] # <<>>
    /\ inbox'[rws] = Tail(inbox[rws])
    /\ Head(inbox[rws]).id \notin DOMAIN pending_requests

\* C20: the step in which the receive loop takes a frame that matches no
\* pending request puts exactly one event when the frame's type is one of the
\* six of the table, of the kind the table gives and with the frame's data
\* object as payload (the empty object when the frame has no data), and puts
\* no event when the type is another one or is missing.
C20_PushFrameToEvent ==
    [][TakesUnmatched =>
        LET frame == Head(inbox[rws])
            kinds == {p[2] : p \in {q \in PushKinds : q[1] = frame.type}}
        IN  /\ pending_requests' = pending_requests
            /\ IF kinds = {}
               THEN published' = published /\ event_queue' = event_queue
               ELSE /\ PutsOne
                    /\ published'[Len(published')].type \in kinds
                    /\ published'[Len(published')].data =
                          (IF frame.data = <<>> THEN {} ELSE frame.data[1])
                    /\ event_queue' =
                          Append(event_queue, published'[Len(published')])]_vars

\* the receive loop has taken an order_book_update or ticker_update frame: one
\* MarketData event with the frame's data is queued, and nothing else
C20_Witness ==
    /\ rpc = "recv"
    /\ Len(published) = 1
    /\ published[1].type = "MARKET_DATA"
    /\ published[1].data = PushData
    /\ event_queue = published
    /\ inbox[rws] = <<>>

\* ------------------------------------------------------------ claims, receive loop
\* in this step the receive loop takes the frame at the head of its inbox
TakesFrame ==
    /\ rpc = "recv" /\ ~rcancel
    /\ inbox[rws] # <<>>
    /\ inbox'[rws] = Tail(inbox[rws])
    /\ tstate' = tstate

\* the request with this id has timed out: wait_for has cancelled its future,
\* or the call has raised the timeout and removed its entry
TimedOut(i) ==
    \/ i \in DOMAIN pending_requests /\ pending_requests[i].state = "cancelled"
    \/ i \notin DOMAIN pending_requests /\ last.id = i /\ last.outcome = "timeout"

\* C21: the step in which the receive loop takes a response whose request has
\* timed out changes neither the pending table nor any call, puts no event,
\* leaves connection_status as it is, and the loop goes on to its next recv().
C21_LateResponseDropped ==
    [][(TakesFrame /\ TimedOut(Head(inbox[rws]).id)) =>
          /\ pending_requests' = pending_requests
          /\ calls' = calls /\ last' = last
          /\ published' = published /\ event_queue' = event_queue
          /\ connection_status' = connection_status
          /\ rpc' = "recv" /\ rws' = rws /\ task' = task]_vars

\* the response of a request that has timed out and given up its entry is at
\* the head of the inbox of a receive loop that has dropped nothing yet
C21_Witness ==
    /\ rpc = "recv" /\ ~rcancel
    /\ inbox[rws] # <<>>
    /\ Head(inbox[rws]).id \notin DOMAIN pending_requests
    /\ last.id = Head(inbox[rws]).id
    /\ last.outcome = "timeout"

\* ------------------------------------------------------------ claims, connection
\* the ids under which this step registers a request
NewIds == DOMAIN pending_requests' \ DOMAIN pending_requests

\* a request is issued in this step
Issues == Len(calls') = Len(calls) + 1

\* C22: the counter of request ids never goes down, whatever connect(),
\* disconnect() and the connections do; a step that issues a request raises
\* it by one and registers the request under the new value, which is greater
\* than the id of every request issued before (as many as the counter says).
C22_IdsNeverReused ==
    /\ [](message_id = Len(calls))
    /\ [][/\ message_id' >= message_id
          /\ Issues => /\ message_id' = message_id + 1
                       /\ message_id' \in DOMAIN pending_requests'
                       /\ pending_requests'[message_id'] = Future
          /\ ~Issues => message_id' = message_id]_vars

\* a request has been issued on a second connection, after the first was given
\* up, under an id greater than that of the request of the first
C22_Witness ==
    /\ Len(calls) >= 2
    /\ ws # None /\ ws >= 2
    /\ tstate[1] = "closed"
    /\ calls[message_id].ws = ws
    /\ calls[message_id].pc \in {"send", "wait"}
    /\ message_id \in DOMAIN pending_requests

\* connect() raises in this step
ConnectRaises == kpc \in {"open", "cleanup"} /\ kpc' = "idle"

\* C23: when connect() raises, the client has put an Error event reporting the
\* failure on the event engine.
C23_ConnectFailurePublished ==
    [][ConnectRaises =>
          \E n \in 1..Len(published') : published'[n].type = "ERROR"]_vars

\* ------------------------------------------------------------ claims, Event payload
\* C24: once an Event has been built from a payload mapping, no assignment the
\* producer makes to that mapping, to one of its keys or inside a mapping
\* nested in it, changes what a handler reads from the event's data.
C24_PayloadIsolated ==
    [][heap.data # NoRef => Observed' = Observed]_vars

\* C25: when recv() has raised because the transport is closed, the receive
\* loop ends and connection_status becomes Error; the loop does not go back to
\* recv() on the closed transport.
C25_TransportLossStopsLoop ==
    [][(rpc = "except" /\ rpc' # "except") =>
          /\ rpc' = "done"
          /\ connection_status' = "error"]_vars

\* in this step the receive loop takes a malformed frame
TakesMalformed ==
    /\ rpc = "recv" /\ ~rcancel
    /\ inbox[rws] # <<>>
    /\ inbox'[rws] = Tail(inbox[rws])
    /\ Head(inbox[rws]) \in MalformedFrames

\* in this step a receive loop that has given up on a frame before takes a
\* well-formed frame
TakesLater ==
    /\ rpc = "recv" /\ ~rcancel
    /\ dropped > 0
    /\ inbox[rws] # <<>>
    /\ inbox'[rws] = Tail(inbox[rws])
    /\ Head(inbox[rws]) \in WellFormedFrames

\* the frame of this step is handled as its class requires: a response sets
\* the result of its own pending request, a trade push puts one TradeUpdate
\* event with the frame's data
HandledByClass ==
    LET frame == Head(inbox[rws])
    IN  IF frame.id \in DOMAIN pending_requests
        THEN /\ pending_requests[frame.id].state = "pending"
                  => pending_requests'[frame.id] = set_result(frame)
             /\ published' = published
        ELSE /\ pending_requests' = pending_requests
             /\ frame.type = "trade" =>
                   /\ Len(published') = Len(published) + 1
                   /\ published'[Len(published')].type = "TRADE_UPDATE"
                   /\ published'[Len(published')].data = frame.data[1]

\* C26: the step in which the receive loop takes a malformed frame (a text
\* that is not JSON, a JSON value that is no object, a push frame whose data
\* is no mapping) leaves the pending table, the calls and connection_status
\* as they are and the loop awaiting its next recv(); and a well-formed frame
\* taken after such a frame is handled as its class requires.
C26_MalformedFrameSkipped ==
    [][/\ TakesMalformed =>
            /\ pending_requests' = pending_requests
            /\ calls' = calls /\ last' = last
            /\ connection_status' = connection_status
            /\ rpc' = "recv" /\ rws' = rws /\ task' = task
       /\ TakesLater => HandledByClass /\ rpc' = "recv"]_vars

\* the receive loop has given up on a frame, has then taken a trade push and
\* put its event, and awaits recv() with a request still pending
C26_Witness ==
    /\ rpc = "recv" /\ connection_status = "connected"
    /\ dropped > 0
    /\ inbox[rws] = <<>>
    /\ Len(published) = 1 /\ published[1].type = "TRADE_UPDATE"
    /\ published[1].data = PushData
    /\ \E i \in DOMAIN pending_requests : pending_requests[i].state = "pending"

\* the changes of connection_status the lifecycle allows
StatusEdges ==
    {<<"disconnected", "connecting">>, <<"connecting", "connected">>,
     <<"connected", "disconnected">>, <<"connecting", "error">>,
     <<"connected", "error">>, <<"error", "disconnected">>}

\* C27: over every interleaving of connect(), disconnect() and receive-loop
\* steps, connection_status changes only along Disconnected-Connecting,
\* Connecting-Connected, Connected-Disconnected, Connecting-Error,
\* Connected-Error and Error-Disconnected; a status of Error is left for
\* Disconnected by the cleanup itself, so no call ever finds it.
C27_StatusEdges ==
    [][/\ connection_status' # connection_status
            => <<connection_status, connection_status'>> \in StatusEdges
       /\ (connection_status = "error" /\ kpc = "idle" /\ dpc = "idle")
            => (kpc' = "idle" /\ dpc' = "idle")]_vars

\* C28: when disconnect() returns, and when connect() raises after it has
\* cleaned up, the pending table is empty, also when requests were
\* outstanding.
C28_TeardownClearsPending ==
    [][(DisconnectReturns \/ ConnectRaises) => pending_requests' = <<>>]_vars

\* C29: after any interleaving of start() and stop() calls at most one
\* dispatch loop of the engine is alive, and no two loops are each about to
\* run or running a listener's handler.
C29_OneLoopAlive ==
    /\ Cardinality({t \in Threads : Alive(t)}) <= 1
    /\ Cardinality({t \in Threads : InHandler(t)}) <= 1

\* the success answer to the authenticate request written on this transport
\* has been received: the request's future holds it, or connect() has gone on
\* to set Connected
AuthAcked(w) ==
    \/ \E a \in DOMAIN pending_requests :
          /\ calls[a].op = "authenticate" /\ calls[a].ws = w
          /\ pending_requests[a].state = "done"
          /\ pending_requests[a].result.status = "success"
    \/ ws = w /\ connection_status = "connected"

\* C30: a request other than authenticate is written on a transport only
\* after the success answer to the authenticate request of that transport
\* has been received, so that authenticate is the first frame written; this
\* also with a domain operation called while connect() is in progress.
C30_AuthenticateFirst ==
    [][\A w \in DOMAIN tstate : \A i \in wire'[w] \ wire[w] :
          calls[i].op # "authenticate" => AuthAcked(w)]_vars

\* C31: every transport the client has opened is the one it holds or has been
\* closed, over every interleaving of connect() and disconnect() calls.
C31_OneCurrentTransport ==
    \A w \in DOMAIN tstate : tstate[w] = "open" => ws = w

\* the receive loop is alive
LoopAlive == rpc \in {"new", "recv", "except"}

\* the authenticate requests registered so far
AuthCalls == {i \in 1..Len(calls) : calls[i].op = "authenticate"}

\* C32: no step taken while the client is Connected and no connect() is under
\* way (so that a connect() called there returns at once) opens a transport,
\* registers an authenticate request, starts a receive loop or moves a
\* connect() on; a receive loop is started only when none is alive, and a
\* loop that is alive is the one the client holds as its task.
C32_OneReceiveLoop ==
    [][/\ (connection_status = "connected" /\ kpc = "idle") =>
            /\ kpc' = "idle"
            /\ \A w \in DOMAIN tstate :
                  tstate[w] = "unopened" => tstate'[w] = "unopened"
            /\ AuthCalls' = AuthCalls
            /\ rpc' = "new" => rpc = "new"
            /\ connection_status' # "connecting"
       /\ (rpc' = "new" /\ rpc # "new") => ~LoopAlive
       /\ LoopAlive' => task' = "task"]_vars

\* a Connected client at rest whose receive loop awaits recv(): connect()
\* called here returns at line 160, and an unopened transport is left
C32_Witness ==
    /\ connection_status = "connected" /\ kpc = "idle" /\ dpc = "idle"
    /\ task = "task" /\ rpc = "recv" /\ ws # None
    /\ ENABLED connect_call
    /\ \E w \in DOMAIN tstate : tstate[w] = "unopened"

\* a dispatch loop is between taking its snapshot and the end of the fan-out
InFanout(t) == tpc[t] = "fanout"

\* C33: while a dispatch loop is in its fan-out, and so whenever a handler
\* runs, no thread holds the listener lock: unregister_listener can be called
\* and ends, and so can register_listener (as long as the list has room), by
\* the handler itself or by any other caller.
C33_LockFreeInHandler ==
    \A t \in Threads : InFanout(t) =>
        /\ lock = NoThread
        /\ \A l \in Range(listeners) : ENABLED unregister_listener(l)
        /\ Len(listeners) < MaxRegs =>
              \A l \in Range(listeners) : ENABLED register_listener(l)

\* a dispatch loop is about to call the handler of a listener of its
\* snapshot, and the list has room for a further registration
C33_Witness ==
    \E t \in Threads :
        /\ InHandler(t)
        /\ Len(listeners) < MaxRegs
        /\ lock = NoThread

\* request i has been written on the transport of its call, which goes on
Written(i) ==
    /\ i \in 1..Len(calls)
    /\ calls[i].pc \in {"send", "wait"}
    /\ i \in wire[calls[i].ws]

\* C34: a request is written only when its future is in the pending table,
\* and stays there while its call goes on; so the step in which the receive
\* loop takes a frame bearing the id of a written request sets the result of
\* that request, unless it has one or has timed out, and puts no event.
C34_RegisteredBeforeWrite ==
    [][/\ \A w \in DOMAIN tstate : \A i \in wire'[w] \ wire[w] :
            /\ i \in DOMAIN pending_requests
            /\ pending_requests[i].state = "pending"
       /\ \A i \in 1..Len(calls) : Written(i) => i \in DOMAIN pending_requests
       /\ (TakesFrame /\ Written(Head(inbox[rws]).id)) =>
            LET frame == Head(inbox[rws])
            IN  /\ pending_requests[frame.id].state = "pending"
                     => pending_requests'[frame.id] = set_result(frame)
                /\ published' = published
                /\ event_queue' = event_queue]_vars

\* the receive loop has set the result of a request whose caller has not
\* been resumed yet
C34_Witness ==
    \E i \in 1..Len(calls) :
        /\ Written(i)
        /\ calls[i].pc = "wait"
        /\ calls[i].op # "authenticate"
        /\ pending_requests[i].state = "done"
        /\ pending_requests[i].result.id = i
        /\ rpc = "recv"

\* the timeout of request i can fire, or its call can be resumed and end
CanEnd(i) ==
    \/ ENABLED send_request_timeout(i)
    \/ ENABLED send_request_return(i)
    \/ kid = i /\ ENABLED connect_auth_done

\* C35: a request call never depends on the peer or the transport to end:
\* at every moment of a call that goes on, its timeout can fire or the call
\* can be resumed with a response or an error.
C35_RequestCompletes ==
    \A i \in 1..Len(calls) : InProgress(i) => CanEnd(i)

\* in this step the fan-out of thread t ends
FanoutEnds(t) == tpc[t] = "fanout" /\ tpc'[t] # "fanout"

\* the listener whose turn it is in the fan-out of thread t, if any is left
Failing(t) ==
    IF tidx[t] \in 1..Len(tsnap[t]) THEN {tsnap[t][tidx[t]]} ELSE {}

\* C36: whatever listener code raises during a fan-out, handle_event or
\* can_handle_event_type, the dispatch loop goes on to its next turn, and
\* when the fan-out ends every listener of the snapshot that accepts the
\* kind of the event, other than the one whose code raised, has been invoked.
C36_ListenerFailureIsolated ==
    [][\A t \in Threads : FanoutEnds(t) =>
          /\ tpc'[t] = "while"
          /\ \A l \in Range(tsnap[t]) \ Failing(t) :
                can_handle_event_type(l, tev[t].type) => tcalls[t][l] >= 1]_vars

\* in this step put is called
PutCalled == Len(published') > Len(published)

\* in this step a read-only operation is called or ends
ReadOpStep ==
    \/ \E op \in ReadOps : send_request(op) \/ send_request_refused(op)
    \/ \E i \in 1..Len(calls) :
          /\ calls[i].op \in ReadOps
          /\ calls[i].pc \in {"send", "wait"}
          /\ calls'[i].pc = "done"

\* in this step an order operation raises for want of a transport, or ends
OrderOpStep ==
    \/ ws = None /\ last'.error = "Not connected to Hummingbot"
    \/ \E i \in 1..Len(calls) :
          /\ calls[i].op \in OrderOps
          /\ calls[i].pc \in {"send", "wait"}
          /\ calls'[i].pc = "done"

\* C37: no step in which a read-only operation is called or ends, with a
\* response, an error status, a timeout or for want of a transport, puts an
\* event; put is called only in steps in which create_order or
\* cancel_order ends or the receive loop takes a frame.
C37_ReadOpsPublishNothing ==
    [][/\ ReadOpStep => (published' = published /\ event_queue' = event_queue)
       /\ PutCalled => (OrderOpStep \/ TakesFrame)]_vars

\* a read-only operation has ended with a response of status error, which
\* makes it raise, and no event has been put
C37_Witness ==
    /\ last.outcome = "response"
    /\ last.got.status = "error"
    /\ last.error = "none"
    /\ calls[last.id].pc = "done"
    /\ published = <<>>

\* in this step a call of _send_request raises at line 237
Refused == ws = None /\ last'.outcome = "not_connected" /\ last' # last

\* C38: a step in which a request is issued while the client holds no
\* transport ends the call at once with the exception and leaves the
\* request-id counter, the pending table, the calls in progress, what has
\* been written to every transport, the transport held and
\* connection_status as they were.
C38_RefusedLeavesClientState ==
    [][Refused =>
         /\ message_id' = message_id
         /\ pending_requests' = pending_requests
         /\ calls' = calls
         /\ wire' = wire
         /\ ws' = ws
         /\ connection_status' = connection_status]_vars

\* a request has been refused after the client took request ids and wrote
\* requests on a transport it no longer holds
C38_Witness ==
    /\ last = NotConnected
    /\ ws = None
    /\ message_id > 0
    /\ \E w \in DOMAIN wire : wire[w] # {}

\* the frame at the head of the loop's transport bears the id of a request
\* that is in the table with its result set
Duplicate ==
    /\ rpc = "recv"
    /\ inbox[rws] # <<>>
    /\ Head(inbox[rws]).id \in DOMAIN pending_requests
    /\ pending_requests[Head(inbox[rws]).id].state = "done"

\* C39: a future that has its result keeps it for as long as its entry is in
\* the table; a call that ends with a response returns the result its future
\* holds; and a step in which the receive loop takes a further frame with
\* the id of such an entry puts no event.
C39_ResolvedOnce ==
    [][/\ \A i \in DOMAIN pending_requests :
             (pending_requests[i].state = "done"
              /\ i \in DOMAIN pending_requests')
                 => pending_requests'[i] = pending_requests[i]
       /\ \A i \in 1..Len(calls) :
             (InProgress(i) /\ i \in DOMAIN pending_requests
              /\ pending_requests[i].state = "done"
              /\ calls'[i].pc = "done")
                 => (/\ last'.id = i
                     /\ last'.outcome = "response"
                     /\ last'.got = pending_requests[i].result)
       /\ (Duplicate /\ TakesFrame)
             => (published' = published /\ event_queue' = event_queue)]_vars

\* a request has its result, its caller has not yet been resumed, and a
\* different frame with the same id and the type of a push is the next the
\* receive loop takes
C39_Witness ==
    /\ Duplicate
    /\ Head(inbox[rws]) # pending_requests[Head(inbox[rws]).id].result
    /\ Head(inbox[rws]).type = "trade"
    /\ InProgress(Head(inbox[rws]).id)

\* the place of the earliest registration of l in the list s
Earliest(l, s) == CHOOSE k \in 1..Len(s) : s[k] = l /\ \A j \in 1..(k - 1) : s[j] # l

\* the list s without its k-th element
Without1(s, k) == SubSeq(s, 1, k - 1) \o SubSeq(s, k + 1, Len(s))

\* C40: a step that registers l appends l to the list, whether or not l is in
\* it; a step that unregisters a registered l removes the earliest l and
\* keeps the other registrations in their order; unregister_listener of a
\* listener that is not in the list can be called and changes nothing; and
\* a fan-out that has gone through its snapshot has invoked each listener
\* that accepts the kind of the event once for each of its registrations in
\* the snapshot.
C40_OrderedMultiset ==
    /\ [][\A l \in ListenerNames :
            /\ regs'[l] = regs[l] + 1 => listeners' = Append(listeners, l)
            /\ regs'[l] = regs[l] - 1 =>
                  (/\ l \in Range(listeners)
                   /\ listeners' = Without1(listeners, Earliest(l, listeners)))
            /\ (l \notin Range(listeners) /\ unregister_listener(l))
                  => vars' = vars]_vars
    /\ [](\A l \in ListenerNames :
            /\ l \notin Range(listeners) => ENABLED unregister_listener(l)
            /\ \A t \in Threads :
                  (InFanout(t) /\ tidx[t] > Len(tsnap[t])) =>
                     tcalls[t][l] = IF can_handle_event_type(l, tev[t].type)
                                    THEN Count(l, tsnap[t]) ELSE 0)

\* a fan-out has invoked the listener registered twice in its snapshot
\* twice, and meanwhile unregister_listener has removed the earlier of the
\* two registrations, which leaves the other listener first
C40_Witness ==
    \E t \in Threads :
        /\ InFanout(t) /\ tidx[t] > Len(tsnap[t])
        /\ tsnap[t] = <<"la", "lb", "la">>
        /\ tcalls[t]["la"] = 2
        /\ listeners = <<"lb", "la">>
====
